---- MODULE Spec2Model ----
(***************************************************************************)
(* Actuarial present values over a mortality table (package barwerte and   *)
(* the Verlaufswerte projections).  The Sterbetafel object is the only     *)
(* long-lived state besides the objects built over it (a projection, a     *)
(* Kommutationswerte object with its cache); every other operation is a    *)
(* pure function of the table and its arguments.  A behaviour is: a table  *)
(* is loaded once (Init), then operations are called one after another;    *)
(* each call records its arguments and what it returned (a number, an      *)
(* array, or an exception).  Floats are modelled by exact rationals.       *)
(***************************************************************************)
EXTENDS Integers, Sequences, FiniteSets, TLC

VARIABLES tafel, vw, komm, op, arg, ret

vars == <<tafel, vw, komm, op, arg, ret>>

(***************************************************************************)
(* Program constant and the bounds of the model.                           *)
(***************************************************************************)
MAX_ALTER == 121

\* number of ages below MAX_ALTER for which tables carry varying data
AgeSpan == 3

LoAlter == MAX_ALTER - AgeSpan

\* ages the operations are called with: one below the lowest table age up to
\* one above the ceiling
CallAlter == (LoAlter - 1)..(MAX_ALTER + 1)

\* durations the operations are called with (non-positive ones included)
CallN == (0 - 1)..(AgeSpan + 1)

(***************************************************************************)
(* Exact rational arithmetic: [num, den] with den > 0, in lowest terms.    *)
(***************************************************************************)
RECURSIVE GCD(_, _)
GCD(a, b) == IF b = 0 THEN a ELSE GCD(b, a % b)

Abs(a) == IF a < 0 THEN 0 - a ELSE a

Norm(n, d) ==
    LET s == IF d < 0 THEN 0 - 1 ELSE 1
        g == GCD(Abs(n), Abs(d))
    IN [num |-> (s * n) \div g, den |-> (s * d) \div g]

R(n, d) == Norm(n, d)
Zero == [num |-> 0, den |-> 1]
One == [num |-> 1, den |-> 1]

RAdd(a, b) == Norm(a.num * b.den + b.num * a.den, a.den * b.den)
RSub(a, b) == Norm(a.num * b.den - b.num * a.den, a.den * b.den)
RMul(a, b) == Norm(a.num * b.num, a.den * b.den)
RDiv(a, b) == Norm(a.num * b.den, a.den * b.num)
RLt(a, b) == a.num * b.den < b.num * a.den
RLe(a, b) == a.num * b.den <= b.num * a.den

\* In applied to wert, with wert evaluated once
Sei(wert, In(_)) == CHOOSE r \in { In(x) : x \in {wert} } : TRUE

RECURSIVE RPow(_, _)
RPow(a, k) ==
    IF k <= 0 THEN One
    ELSE IF k = 1 THEN a
    ELSE Sei(RPow(a, k \div 2),
             LAMBDA h : IF k % 2 = 0 THEN RMul(h, h)
                        ELSE RMul(RMul(h, h), a))

RECURSIVE SumSeq(_)
SumSeq(s) ==
    IF Len(s) = 0 THEN Zero
    ELSE IF Len(s) = 1 THEN s[1]
    ELSE LET h == Len(s) \div 2
         IN RAdd(SumSeq(SubSeq(s, 1, h)), SumSeq(SubSeq(s, h + 1, Len(s))))

RECURSIVE ProdSeq(_)
ProdSeq(s) ==
    IF Len(s) = 0 THEN One
    ELSE IF Len(s) = 1 THEN s[1]
    ELSE LET h == Len(s) \div 2
         IN RMul(ProdSeq(SubSeq(s, 1, h)), ProdSeq(SubSeq(s, h + 1, Len(s))))

\* np.cumprod: entry i is the product of the first i entries
CumProd(s) == [i \in 1..Len(s) |-> ProdSeq(SubSeq(s, 1, i))]

(***************************************************************************)
(* What a call returns: a float (val), a one-dimensional array (vec), a    *)
(* raised exception (err), or a compound value whose parts are in rows.    *)
(***************************************************************************)
Ret(k, x, s, e, rs) == [kind |-> k, val |-> x, vec |-> s, exc |-> e, rows |-> rs]
Val(x) == Ret("val", x, <<>>, "", <<>>)
Vec(s) == Ret("vec", Zero, s, "", <<>>)
Err(e) == Ret("err", Zero, <<>>, e, <<>>)
NoRet == Ret("none", Zero, <<>>, "", <<>>)

IsErr(r) == r.kind = "err"

(***************************************************************************)
(* Sterbetafel: the table as __init__ leaves it.                           *)
(***************************************************************************)
\* one-year death probabilities the tables are built from
Probs == {Zero, R(1, 3), One}

\* interest rates the operations are called with
Zinsen == {Zero, One}

SexArgs == {"M", "F"}

\* Sterbetafel.__init__: rows with Alter <= MAX_ALTER, contiguous ages,
\* min_alter / max_alter taken from the rows, indexed by age.  The female
\* column of the generated tables is the complement of the male column.
Tafeln ==
    { [min_alter |-> lo, max_alter |-> hi,
       data |-> [a \in lo..hi |-> [qx |-> col[a], qy |-> RSub(One, col[a])]]] :
        <<lo, hi, col>> \in
            UNION { UNION { { <<l, h, c>> : c \in [l..h -> Probs] } :
                            h \in {MAX_ALTER - 1, MAX_ALTER} } :
                    l \in {LoAlter, LoAlter + 1} } }

\* the sex argument left as it was passed
Upper_unveraendert(s) == s

\* str.upper on the sex argument
Upper(s) ==
    CASE s = "m" -> "M" [] s = "f" -> "F" [] s = "w" -> "W" [] s = "x" -> "X"
      [] OTHER -> s

\* qx with the upper age bound tested with >= instead of >
qx_obergrenze(st, alter, sex) ==
    IF alter < st.min_alter \/ alter >= st.max_alter
    THEN Err("ValueError")
    ELSE LET u == Upper(sex)
             s == IF u \notin {"M", "F"} THEN "F" ELSE u
         IN IF s = "M" THEN Val(st.data[alter].qx) ELSE Val(st.data[alter].qy)

\* Sterbetafel.qx
qx(st, alter, sex) ==
    IF alter < st.min_alter \/ alter > st.max_alter
    THEN Err("ValueError")
    ELSE LET u == Upper(sex)
             s == IF u \notin {"M", "F"} THEN "F" ELSE u
         IN IF s = "M" THEN Val(st.data[alter].qx) ELSE Val(st.data[alter].qy)

\* Sterbetafel.qx_vec
qx_vec(st, alter, n, sex) ==
    IF n <= 0 \/ alter + n > st.max_alter
    THEN Vec(<<>>)
    ELSE IF \E i \in 0..(n - 1) : IsErr(qx(st, alter + i, sex))
         THEN Err("ValueError")
         ELSE Vec([i \in 1..n |-> qx(st, alter + i - 1, sex).val])

\* Sterbetafel.px_vec
px_vec(st, alter, n, sex) ==
    LET qx_werte == qx_vec(st, alter, n, sex)
    IN IF IsErr(qx_werte) THEN qx_werte
       ELSE Vec([i \in 1..Len(qx_werte.vec) |-> RSub(One, qx_werte.vec[i])])

(***************************************************************************)
(* basisfunktionen.py                                                      *)
(***************************************************************************)
Min(a, b) == IF a < b THEN a ELSE b

\* diskont
diskont(zins) == IF RLt(Zero, zins) THEN RDiv(One, RAdd(One, zins)) ELSE One

\* abzugsglied without the test for the supported payment frequencies
abzugsglied_jede_zw(zw, zins) ==
    IF zw <= 0 \/ zw = 1 THEN Zero
    ELSE LET term(w) == RDiv(R(w, zw), RAdd(One, RMul(R(w, zw), zins)))
             abzug == SumSeq([i \in 1..zw |-> term(i - 1)])
         IN RMul(abzug, RDiv(RAdd(One, zins), R(zw, 1)))

\* abzugsglied
abzugsglied(zw, zins) ==
    IF zw <= 0 \/ zw = 1 THEN Zero
    ELSE IF zw \notin {1, 2, 4, 12} THEN Zero
    ELSE LET term(w) == RDiv(R(w, zw), RAdd(One, RMul(R(w, zw), zins)))
             abzug == SumSeq([i \in 1..zw |-> term(i - 1)])
         IN RMul(abzug, RDiv(RAdd(One, zins), R(zw, 1)))

\* npx_skalar (identical to npx of old/basisfunktionen_vectorized.py)
npx_skalar(alter, n, sex, st) ==
    IF n <= 0 \/ alter + n >= MAX_ALTER THEN Val(One)
    ELSE LET px_werte == px_vec(st, alter, n, sex)
         IN IF IsErr(px_werte) THEN px_werte ELSE Val(ProdSeq(px_werte.vec))

\* tpx_matrix that stores the one-year probabilities without np.cumprod
tpx_matrix_ohne_cumprod(alter, max_t, sex, st) ==
    IF max_t <= 0 \/ alter >= MAX_ALTER THEN Vec(<<One>>)
    ELSE LET mt == Min(max_t, MAX_ALTER - alter)
             px_werte == px_vec(st, alter, mt, sex)
         IN IF IsErr(px_werte) THEN px_werte
            ELSE IF Len(px_werte.vec) # mt THEN Err("ValueError")
            ELSE Vec(<<One>> \o px_werte.vec)

\* tpx_matrix (identical in old/basisfunktionen_vectorized.py); assigning an
\* empty cumprod into tpx_values[1:] raises numpy's broadcast ValueError
tpx_matrix(alter, max_t, sex, st) ==
    IF max_t <= 0 \/ alter >= MAX_ALTER THEN Vec(<<One>>)
    ELSE LET mt == Min(max_t, MAX_ALTER - alter)
             px_werte == px_vec(st, alter, mt, sex)
         IN IF IsErr(px_werte) THEN px_werte
            ELSE IF Len(px_werte.vec) # mt THEN Err("ValueError")
            ELSE Vec(<<One>> \o CumProd(px_werte.vec))

(***************************************************************************)
(* leistungsbarwerte.py, scalar functions                                  *)
(***************************************************************************)
\* the running product tpx of the scalar loops: px of ages alter..alter+k-1,
\* each read with the point query Sterbetafel.qx
LoopTpx(st, alter, k, sex) ==
    ProdSeq([i \in 1..k |-> RSub(One, qx(st, alter + i - 1, sex).val)])

\* nAe_x_skalar
nAe_x_skalar(alter, n, sex, zins, st) ==
    IF n <= 0 \/ alter + n > MAX_ALTER THEN Val(Zero)
    ELSE LET nn == Min(MAX_ALTER - alter, n)
             v == diskont(zins)
         IN IF \E t \in 1..nn : IsErr(qx(st, alter + t - 1, sex))
            THEN Err("ValueError")
            ELSE Val(SumSeq([t \in 1..nn |->
                     RMul(RMul(LoopTpx(st, alter, t - 1, sex),
                               qx(st, alter + t - 1, sex).val),
                          RPow(v, t))]))

\* nE_x_skalar
nE_x_skalar(alter, n, sex, zins, st) ==
    IF n <= 0 \/ alter + n > MAX_ALTER THEN Val(One)
    ELSE LET v == diskont(zins)
             n_px == npx_skalar(alter, n, sex, st)
         IN IF IsErr(n_px) THEN n_px ELSE Val(RMul(n_px.val, RPow(v, n)))

\* Ae_xn_skalar
Ae_xn_skalar(alter, n, sex, zins, st) ==
    LET a == nAe_x_skalar(alter, n, sex, zins, st)
        e == nE_x_skalar(alter, n, sex, zins, st)
    IN IF IsErr(a) THEN a ELSE IF IsErr(e) THEN e
       ELSE Val(RAdd(a.val, e.val))

(***************************************************************************)
(* old/rentenbarwerte_vectorized.py, scalar annuities                      *)
(***************************************************************************)
\* the scalar ae_xn with a term that is cut at MAX_ALTER instead of refused
old_ae_xn_gekappt(alter, n, sex, zins, st) ==
    IF n <= 0 \/ alter >= MAX_ALTER THEN Val(Zero)
    ELSE LET nn == Min(MAX_ALTER - alter, n)
             v == diskont(zins)
         IN IF \E t \in 0..(nn - 2) : IsErr(qx(st, alter + t, sex))
            THEN Err("ValueError")
            ELSE Val(SumSeq([i \in 1..nn |->
                     RMul(LoopTpx(st, alter, i - 1, sex), RPow(v, i - 1))]))

\* ae_xn of old/rentenbarwerte_vectorized.py (scalar temporary annuity)
old_ae_xn(alter, n, sex, zins, st) ==
    IF n <= 0 \/ alter + n > MAX_ALTER THEN Val(Zero)
    ELSE LET nn == Min(MAX_ALTER - alter, n)
             v == diskont(zins)
         IN IF \E t \in 0..(nn - 2) : IsErr(qx(st, alter + t, sex))
            THEN Err("ValueError")
            ELSE Val(SumSeq([i \in 1..nn |->
                     RMul(LoopTpx(st, alter, i - 1, sex), RPow(v, i - 1))]))

\* ae_x of old/rentenbarwerte_vectorized.py (scalar whole-life annuity)
old_ae_x(alter, sex, zins, st) ==
    IF alter <= 0 \/ alter >= MAX_ALTER THEN Val(Zero)
    ELSE LET nn == MAX_ALTER - alter
             v == diskont(zins)
         IN IF \E t \in 0..(nn - 2) : IsErr(qx(st, alter + t, sex))
            THEN Err("ValueError")
            ELSE Val(SumSeq([i \in 1..nn |->
                     RMul(LoopTpx(st, alter, i - 1, sex), RPow(v, i - 1))]))

\* ae_x_k of old/rentenbarwerte_vectorized.py
old_ae_x_k(alter, sex, zins, zw, st) ==
    IF zw <= 0 THEN Val(Zero)
    ELSE LET ax_wert == old_ae_x(alter, sex, zins, st)
             abzug == abzugsglied(zw, zins)
         IN IF IsErr(ax_wert) THEN ax_wert ELSE Val(RSub(ax_wert.val, abzug))

(***************************************************************************)
(* leistungsbarwerte.py, series functions                                  *)
(***************************************************************************)
\* Python slice a[lo:hi] of a sequence (0-based, hi exclusive, clipped)
Slice(a, lo, hi) == SubSeq(a, lo + 1, Min(hi, Len(a)))

\* tpx_values of a loop body: ones(r + 1) with [1:] = cumprod(px_slice)
SliceTpx(px_slice) == <<One>> \o CumProd(px_slice)

\* nAe_x_vec
nAe_x_vec(alter, n, sex, zins, st) ==
    IF n <= 0 \/ alter + n > MAX_ALTER THEN Vec(<<>>)
    ELSE LET nn == Min(MAX_ALTER - alter, n)
             v == diskont(zins)
             qx_all == qx_vec(st, alter, nn, sex)
             entry(t) ==
                 LET r == nn - t
                     px_slice == [i \in 1..r |-> RSub(One, qx_all.vec[t + i])]
                     tpx_values == SliceTpx(px_slice)
                 IN IF r = 0 THEN Zero
                    ELSE SumSeq([s \in 1..r |->
                             RMul(RMul(tpx_values[s], qx_all.vec[t + s]),
                                  RPow(v, s))])
         IN IF IsErr(qx_all) THEN qx_all
            ELSE IF Len(qx_all.vec) # nn THEN Err("ValueError")
            ELSE Vec([i \in 1..(nn + 1) |-> entry(i - 1)])

\* nE_x_vec
nE_x_vec(alter, n, sex, zins, st) ==
    IF n <= 0 \/ alter + n > MAX_ALTER THEN Vec(<<>>)
    ELSE LET nn == Min(MAX_ALTER - alter, n)
             v == diskont(zins)
             tpx_values == tpx_matrix(alter, nn, sex, st)
             n_t_px(t) == npx_skalar(alter + t, nn - t, sex, st)
         IN IF IsErr(tpx_values) THEN tpx_values
            ELSE IF \E t \in 0..(nn - 1) : IsErr(n_t_px(t))
            THEN Err("ValueError")
            ELSE Vec([i \in 1..(nn + 1) |->
                     IF i = nn + 1 THEN One
                     ELSE RMul(n_t_px(i - 1).val, RPow(v, nn - (i - 1)))])

\* nE_x
nE_x(alter, n, sex, zins, st) ==
    IF n <= 0 \/ alter + n > MAX_ALTER THEN Vec(<<>>)
    ELSE LET nn == Min(MAX_ALTER - alter, n)
             v == diskont(zins)
             tpx_from_x == tpx_matrix(alter, nn, sex, st)
             npx_value == tpx_from_x.vec[nn + 1]
             entry(t) ==
                 LET tp_x == tpx_from_x.vec[t + 1]
                     n_t_px == IF RLt(Zero, tp_x) THEN RDiv(npx_value, tp_x)
                               ELSE Zero
                 IN RMul(n_t_px, RPow(v, nn - t))
         IN IF IsErr(tpx_from_x) THEN tpx_from_x
            ELSE Vec([i \in 1..(nn + 1) |->
                     IF i = nn + 1 THEN One ELSE entry(i - 1)])

\* nAe_x
nAe_x(alter, n, sex, zins, st) ==
    IF n <= 0 \/ alter + n > MAX_ALTER THEN Vec(<<>>)
    ELSE LET nn == Min(MAX_ALTER - alter, n)
             v == diskont(zins)
             qx_all == qx_vec(st, alter, nn, sex)
             npx_from_x == tpx_matrix(alter, nn, sex, st)
             entry(j) ==
                 LET r == nn - j
                     np_x == npx_from_x.vec[j + 1]
                     qx_slice == Slice(qx_all.vec, j, j + r)
                 IN IF np_x = Zero THEN Zero
                    ELSE SumSeq([s \in 1..r |->
                             RMul(RMul(RDiv(npx_from_x.vec[j + s], np_x),
                                       qx_slice[s]),
                                  RPow(v, s))])
         IN IF IsErr(qx_all) THEN qx_all
            ELSE IF IsErr(npx_from_x) THEN npx_from_x
            ELSE Vec([i \in 1..(nn + 1) |-> entry(i - 1)])

\* array + array, array - array of numpy for equal shapes
VecAdd(a, b) == [i \in 1..Len(a) |-> RAdd(a[i], b[i])]
VecSub(a, b) == [i \in 1..Len(a) |-> RSub(a[i], b[i])]

\* Ae_xn
Ae_xn(alter, n, sex, zins, st) ==
    LET a == nAe_x(alter, n, sex, zins, st)
        e == nE_x(alter, n, sex, zins, st)
    IN IF IsErr(a) THEN a ELSE IF IsErr(e) THEN e
       ELSE Vec(VecAdd(a.vec, e.vec))

(***************************************************************************)
(* rentenbarwerte.py                                                       *)
(***************************************************************************)
\* ae_x: the guard reads the local n before it is assigned
ae_x(alter, sex, zins, st) == Err("UnboundLocalError")

\* ae_x_k: the return statement parses as (ae_x - abzug) if zw > 1 else 0.0
ae_x_k(alter, sex, zins, zw, st) ==
    IF zw <= 0 THEN Val(Zero)
    ELSE IF zw > 1
         THEN LET a == ae_x(alter, sex, zins, st)
              IN IF IsErr(a) THEN a
                 ELSE Val(RSub(a.val, abzugsglied(zw, zins)))
         ELSE Val(Zero)

\* ae_xn_k with the qx slice of offset j taken from the start of the range
\* (qx_all[:r] instead of qx_all[j:j+r])
ae_xn_k_ohne_versatz(alter, n, sex, zins, zw, st) ==
    IF n <= 0 \/ alter + n > MAX_ALTER THEN Vec(<<>>)
    ELSE LET nn == Min(MAX_ALTER - alter, n)
             v == diskont(zins)
             abzug == IF zw > 1 THEN abzugsglied(zw, zins) ELSE Zero
             qx_all == qx_vec(st, alter, nn, sex)
             entry(j) ==
                 LET r == nn - j
                     px_slice == [i \in 1..r |-> RSub(One, qx_all.vec[i])]
                     jpx_values == SliceTpx(px_slice)
                     rente == SumSeq([s \in 1..r |->
                                  RMul(jpx_values[s], RPow(v, s - 1))])
                 IN IF zw > 1
                    THEN RSub(rente,
                              RMul(abzug,
                                   RSub(One, RMul(jpx_values[r + 1], RPow(v, r)))))
                    ELSE rente
         IN IF IsErr(qx_all) THEN qx_all
            ELSE IF Len(qx_all.vec) # nn THEN Err("ValueError")
            ELSE Vec([i \in 1..nn |-> entry(i - 1)])

\* ae_xn_k
ae_xn_k(alter, n, sex, zins, zw, st) ==
    IF n <= 0 \/ alter + n > MAX_ALTER THEN Vec(<<>>)
    ELSE LET nn == Min(MAX_ALTER - alter, n)
             v == diskont(zins)
             abzug == IF zw > 1 THEN abzugsglied(zw, zins) ELSE Zero
             qx_all == qx_vec(st, alter, nn, sex)
             entry(j) ==
                 LET r == nn - j
                     px_slice == [i \in 1..r |-> RSub(One, qx_all.vec[j + i])]
                     jpx_values == SliceTpx(px_slice)
                     rente == SumSeq([s \in 1..r |->
                                  RMul(jpx_values[s], RPow(v, s - 1))])
                 IN IF zw > 1
                    THEN RSub(rente,
                              RMul(abzug,
                                   RSub(One, RMul(jpx_values[r + 1], RPow(v, r)))))
                    ELSE rente
         IN IF IsErr(qx_all) THEN qx_all
            ELSE IF Len(qx_all.vec) # nn THEN Err("ValueError")
            ELSE Vec([i \in 1..nn |-> entry(i - 1)])

\* ae_xn
ae_xn(alter, n, sex, zins, st) ==
    IF n <= 0 \/ alter + n > MAX_ALTER THEN Vec(<<>>)
    ELSE LET nn == Min(MAX_ALTER - alter, n)
             v == diskont(zins)
             qx_all == qx_vec(st, alter, nn, sex)
             entry(j) ==
                 LET r == nn - j
                     px_slice == [i \in 1..r |-> RSub(One, qx_all.vec[j + i])]
                     jpx_values == SliceTpx(px_slice)
                 IN SumSeq([s \in 1..r |-> RMul(jpx_values[s], RPow(v, s - 1))])
         IN IF IsErr(qx_all) THEN qx_all
            ELSE IF Len(qx_all.vec) # nn THEN Err("ValueError")
            ELSE Vec([i \in 1..nn |-> entry(i - 1)])

\* ae_xn_verlauf_vec of old/rentenbarwerte_vectorized.py
old_ae_xn_verlauf_vec(alter, n, sex, zins, zw, st) ==
    IF n <= 0 \/ alter + n > MAX_ALTER THEN Vec(<<>>)
    ELSE LET nn == Min(MAX_ALTER - alter, n)
             v == diskont(zins)
             tpx_t(t) == tpx_matrix(alter + t, nn - t, sex, st)
             n_t_px(t) == npx_skalar(alter + t, nn - t, sex, st)
             rente(t) == SumSeq([s \in 1..(nn - t) |->
                             RMul(tpx_t(t).vec[s], RPow(v, s - 1))])
             korrektur(t) ==
                 RMul(abzugsglied(zw, zins),
                      RSub(One, RMul(n_t_px(t).val, RPow(v, nn - t))))
         IN IF \E t \in 0..(nn - 1) : IsErr(tpx_t(t)) THEN Err("ValueError")
            ELSE IF zw > 1 /\ \E t \in 0..(nn - 1) : IsErr(n_t_px(t))
            THEN Err("ValueError")
            ELSE Vec([i \in 1..nn |->
                     IF zw > 1 THEN RSub(rente(i - 1), korrektur(i - 1))
                     ELSE rente(i - 1)])

(***************************************************************************)
(* verlaufswerte.py                                                        *)
(***************************************************************************)
Max(a, b) == IF a < b THEN b ELSE a

\* berechne_reserve with a premium that covers the death benefit only
berechne_reserve_ohne_erleben(alter, n, t, sex, zins, zw, st) ==
    LET tod == nAe_x_vec(alter, n, sex, zins, st)
        erl == nE_x_vec(alter, n, sex, zins, st)
        rente_t == old_ae_xn_verlauf_vec(alter, t, sex, zins, zw, st)
        \* length of rentenbarwerte_n[:t]
        ziel == IF t >= 0 THEN Min(t, n) ELSE Max(n + t, 0)
        quelle == Len(rente_t.vec)
        rente_n == [i \in 1..n |->
                       IF i <= ziel
                       THEN (IF quelle = 1 THEN rente_t.vec[1] ELSE rente_t.vec[i])
                       ELSE Zero]
        leistung == VecAdd(tod.vec, erl.vec)
        nettopraemie == RDiv(tod.vec[1], rente_n[1])
    IN IF IsErr(tod) THEN tod
       ELSE IF IsErr(erl) THEN erl
       ELSE IF IsErr(rente_t) THEN rente_t
       ELSE IF n < 0 THEN Err("ValueError")                 \* np.zeros(n)
       ELSE IF quelle # ziel /\ quelle # 1 THEN Err("ValueError")
       ELSE IF Len(tod.vec) = 0 \/ n = 0 THEN Err("IndexError")
       ELSE IF rente_n[1] = Zero THEN Ret("nonfinite", Zero, <<>>, "", <<>>)
       ELSE IF Len(leistung) # n /\ n # 1 THEN Err("ValueError")
       ELSE Ret("dict", nettopraemie,
                [i \in 1..Len(leistung) |->
                    RSub(leistung[i],
                         RMul(nettopraemie,
                              IF n = 1 THEN rente_n[1] ELSE rente_n[i]))],
                "", <<tod.vec, erl.vec, rente_n>>)

\* berechne_reserve.  lbw.nAe_x_verlauf_vec, lbw.nE_x_verlauf_vec and
\* rbw.ae_xn_verlauf_vec are the functions that leistungsbarwerte.py now
\* carries as nAe_x_vec and nE_x_vec and old/rentenbarwerte_vectorized.py
\* as ae_xn_verlauf_vec.  The result dict is returned as
\* val = nettopraemie, vec = reserve,
\* rows = <<todesfallleistung, erlebensfallleistung, rentenbarwerte>>.
berechne_reserve(alter, n, t, sex, zins, zw, st) ==
    LET tod == nAe_x_vec(alter, n, sex, zins, st)
        erl == nE_x_vec(alter, n, sex, zins, st)
        rente_t == old_ae_xn_verlauf_vec(alter, t, sex, zins, zw, st)
        \* length of rentenbarwerte_n[:t]
        ziel == IF t >= 0 THEN Min(t, n) ELSE Max(n + t, 0)
        quelle == Len(rente_t.vec)
        rente_n == [i \in 1..n |->
                       IF i <= ziel
                       THEN (IF quelle = 1 THEN rente_t.vec[1] ELSE rente_t.vec[i])
                       ELSE Zero]
        leistung == VecAdd(tod.vec, erl.vec)
        nettopraemie == RDiv(leistung[1], rente_n[1])
    IN IF IsErr(tod) THEN tod
       ELSE IF IsErr(erl) THEN erl
       ELSE IF IsErr(rente_t) THEN rente_t
       ELSE IF n < 0 THEN Err("ValueError")                 \* np.zeros(n)
       ELSE IF quelle # ziel /\ quelle # 1 THEN Err("ValueError")
       ELSE IF Len(tod.vec) = 0 \/ n = 0 THEN Err("IndexError")
       ELSE IF rente_n[1] = Zero THEN Ret("nonfinite", Zero, <<>>, "", <<>>)
       ELSE IF Len(leistung) # n /\ n # 1 THEN Err("ValueError")
       ELSE Ret("dict", nettopraemie,
                [i \in 1..Len(leistung) |->
                    RSub(leistung[i],
                         RMul(nettopraemie,
                              IF n = 1 THEN rente_n[1] ELSE rente_n[i]))],
                "", <<tod.vec, erl.vec, rente_n>>)

\* np.array(list): a list of floats gives a one-dimensional array, a list of
\* equally long arrays a two-dimensional one (kind "matrix"); a list of
\* unequal shapes raises ValueError on numpy >= 1.24 (strict) and gives an
\* object array (kind "ragged") on older numpy.  An exception raised while
\* the list is built propagates.
NpArray(elems, strict) ==
    IF \E i \in 1..Len(elems) : IsErr(elems[i])
    THEN elems[CHOOSE i \in 1..Len(elems) :
                  /\ IsErr(elems[i])
                  /\ \A j \in 1..(i - 1) : ~IsErr(elems[j])]
    ELSE IF \A i \in 1..Len(elems) : elems[i].kind = "val"
    THEN Vec([i \in 1..Len(elems) |-> elems[i].val])
    ELSE IF \A i \in 1..Len(elems) :
               /\ elems[i].kind = "vec"
               /\ Len(elems[i].vec) = Len(elems[1].vec)
    THEN Ret("matrix", Zero, <<>>, "", elems)
    ELSE IF strict THEN Err("ValueError")
    ELSE Ret("ragged", Zero, <<>>, "", elems)

\* Verlaufswerte.__init__: the object (its config) or the ValueError
NoVw == [alive |-> FALSE, config |-> [n |-> 0, alter |-> 0, sex |-> "M",
                                      zins |-> Zero, zw |-> 1, t |-> 0]]

\* Verlaufswerte.__init__ without the test of alter + n against MAX_ALTER
Verlaufswerte_ungeprueft(config) == [alive |-> TRUE, config |-> config]

Verlaufswerte(config) ==
    IF config.alter + config.n > MAX_ALTER THEN NoVw
    ELSE [alive |-> TRUE, config |-> config]

\* Verlaufswerte.berechne_rentenbarwerte
berechne_rentenbarwerte(self, st, strict) ==
    LET c == self.config
    IN NpArray([i \in 1..Max(c.n, 0) |->
                   ae_xn_k(c.alter + i - 1, c.n - (i - 1), c.sex, c.zins, c.zw, st)],
               strict)

\* Verlaufswerte.berechne_todesfallbarwerte
berechne_todesfallbarwerte(self, st, strict) ==
    LET c == self.config
    IN NpArray([i \in 1..Max(c.n + 1, 0) |->
                   IF c.n - (i - 1) > 0
                   THEN nAe_x(c.alter + i - 1, c.n - (i - 1), c.sex, c.zins, st)
                   ELSE Val(Zero)],
               strict)

\* Verlaufswerte.berechne_erlebensfallbarwerte
berechne_erlebensfallbarwerte(self, st, strict) ==
    LET c == self.config
    IN NpArray([i \in 1..Max(c.n + 1, 0) |->
                   IF c.n - (i - 1) > 0
                   THEN nE_x(c.alter + i - 1, c.n - (i - 1), c.sex, c.zins, st)
                   ELSE Val(One)],
               strict)

(***************************************************************************)
(* Calls.  A caller invokes one operation at a time on the loaded table    *)
(* and looks at what it returned before it goes on.                        *)
(***************************************************************************)
NoArg == NoVw.config

\* no Kommutationswerte object
NoKomm == [zins |-> Zero, v |-> One, alive |-> FALSE, cache |-> <<>>]

Args(alter, n, t, sex, zins, zw) ==
    [n |-> n, alter |-> alter, sex |-> sex, zins |-> zins, zw |-> zw, t |-> t]

\* payment frequencies the operations are called with; the exact value of
\* abzugsglied(12, i) for i > 0 exceeds the 32-bit integers of TLC
ZinsZw == { p \in Zinsen \X {0, 1, 2, 3, 4, 12} : p[2] = 12 => p[1] = Zero }

\* rate and frequency of the contracts given to berechne_reserve and to the
\* projection object
VertragZinsZw == Zinsen \X {1, 2}

Init ==
    /\ tafel \in Tafeln
    /\ vw = NoVw
    /\ komm = NoKomm
    /\ op = "idle"
    /\ arg = NoArg
    /\ ret = NoRet

\* a call that keeps the age it was asked about as the table's lower bound
Call_schreibend(name, a, r) ==
    /\ op = "idle"
    /\ op' = name
    /\ arg' = a
    /\ ret' = r
    /\ tafel' = [tafel EXCEPT !.min_alter = a.alter]
    /\ UNCHANGED <<vw, komm>>

\* a call of a function of the package: name, arguments, result
Call(name, a, r) ==
    /\ op = "idle"
    /\ op' = name
    /\ arg' = a
    /\ ret' = r
    /\ UNCHANGED <<tafel, vw, komm>>

\* the caller has read the result and goes on
Return ==
    /\ op # "idle"
    /\ op' = "idle"
    /\ arg' = NoArg
    /\ ret' = NoRet
    /\ UNCHANGED <<tafel, vw, komm>>

Call_qx ==
    /\ op = "idle"
    /\ \E alter \in CallAlter, sex \in SexArgs :
        Call("qx", Args(alter, 0, 0, sex, Zero, 1), qx(tafel, alter, sex))

Call_qx_vec ==
    /\ op = "idle"
    /\ \E alter \in CallAlter, n \in CallN, sex \in SexArgs :
        Call("qx_vec", Args(alter, n, 0, sex, Zero, 1),
             qx_vec(tafel, alter, n, sex))

Call_px_vec ==
    /\ op = "idle"
    /\ \E alter \in CallAlter, n \in CallN, sex \in SexArgs :
        Call("px_vec", Args(alter, n, 0, sex, Zero, 1),
             px_vec(tafel, alter, n, sex))

Call_npx_skalar ==
    /\ op = "idle"
    /\ \E alter \in CallAlter, n \in CallN, sex \in SexArgs :
        Call("npx_skalar", Args(alter, n, 0, sex, Zero, 1),
             npx_skalar(alter, n, sex, tafel))

Call_tpx_matrix ==
    /\ op = "idle"
    /\ \E alter \in CallAlter, n \in CallN, sex \in SexArgs :
        Call("tpx_matrix", Args(alter, n, 0, sex, Zero, 1),
             tpx_matrix(alter, n, sex, tafel))

Call_nAe_x_skalar ==
    /\ op = "idle"
    /\ \E alter \in CallAlter, n \in CallN, sex \in SexArgs, zins \in Zinsen :
        Call("nAe_x_skalar", Args(alter, n, 0, sex, zins, 1),
             nAe_x_skalar(alter, n, sex, zins, tafel))

Call_nE_x_skalar ==
    /\ op = "idle"
    /\ \E alter \in CallAlter, n \in CallN, sex \in SexArgs, zins \in Zinsen :
        Call("nE_x_skalar", Args(alter, n, 0, sex, zins, 1),
             nE_x_skalar(alter, n, sex, zins, tafel))

Call_Ae_xn_skalar ==
    /\ op = "idle"
    /\ \E alter \in CallAlter, n \in CallN, sex \in SexArgs, zins \in Zinsen :
        Call("Ae_xn_skalar", Args(alter, n, 0, sex, zins, 1),
             Ae_xn_skalar(alter, n, sex, zins, tafel))

Call_nAe_x_vec ==
    /\ op = "idle"
    /\ \E alter \in CallAlter, n \in CallN, sex \in SexArgs, zins \in Zinsen :
        Call("nAe_x_vec", Args(alter, n, 0, sex, zins, 1),
             nAe_x_vec(alter, n, sex, zins, tafel))

Call_nE_x_vec ==
    /\ op = "idle"
    /\ \E alter \in CallAlter, n \in CallN, sex \in SexArgs, zins \in Zinsen :
        Call("nE_x_vec", Args(alter, n, 0, sex, zins, 1),
             nE_x_vec(alter, n, sex, zins, tafel))

Call_nE_x ==
    /\ op = "idle"
    /\ \E alter \in CallAlter, n \in CallN, sex \in SexArgs, zins \in Zinsen :
        Call("nE_x", Args(alter, n, 0, sex, zins, 1),
             nE_x(alter, n, sex, zins, tafel))

Call_nAe_x ==
    /\ op = "idle"
    /\ \E alter \in CallAlter, n \in CallN, sex \in SexArgs, zins \in Zinsen :
        Call("nAe_x", Args(alter, n, 0, sex, zins, 1),
             nAe_x(alter, n, sex, zins, tafel))

Call_Ae_xn ==
    /\ op = "idle"
    /\ \E alter \in CallAlter, n \in CallN, sex \in SexArgs, zins \in Zinsen :
        Call("Ae_xn", Args(alter, n, 0, sex, zins, 1),
             Ae_xn(alter, n, sex, zins, tafel))

Call_ae_x ==
    /\ op = "idle"
    /\ \E alter \in CallAlter, sex \in SexArgs, zins \in Zinsen :
        Call("ae_x", Args(alter, 0, 0, sex, zins, 1),
             ae_x(alter, sex, zins, tafel))

Call_ae_x_k ==
    /\ op = "idle"
    /\ \E alter \in CallAlter, sex \in SexArgs, p \in ZinsZw :
        Call("ae_x_k", Args(alter, 0, 0, sex, p[1], p[2]),
             ae_x_k(alter, sex, p[1], p[2], tafel))

Call_ae_xn ==
    /\ op = "idle"
    /\ \E alter \in CallAlter, n \in CallN, sex \in SexArgs, zins \in Zinsen :
        Call("ae_xn", Args(alter, n, 0, sex, zins, 1),
             ae_xn(alter, n, sex, zins, tafel))

Call_ae_xn_k ==
    /\ op = "idle"
    /\ \E alter \in CallAlter, n \in CallN, sex \in SexArgs, p \in ZinsZw :
        Call("ae_xn_k", Args(alter, n, 0, sex, p[1], p[2]),
             ae_xn_k(alter, n, sex, p[1], p[2], tafel))

Call_old_ae_x ==
    /\ op = "idle"
    /\ \E alter \in CallAlter, sex \in SexArgs, zins \in Zinsen :
        Call("old_ae_x", Args(alter, 0, 0, sex, zins, 1),
             old_ae_x(alter, sex, zins, tafel))

Call_old_ae_x_k ==
    /\ op = "idle"
    /\ \E alter \in CallAlter, sex \in SexArgs, p \in ZinsZw :
        Call("old_ae_x_k", Args(alter, 0, 0, sex, p[1], p[2]),
             old_ae_x_k(alter, sex, p[1], p[2], tafel))

Call_old_ae_xn ==
    /\ op = "idle"
    /\ \E alter \in CallAlter, n \in CallN, sex \in SexArgs, zins \in Zinsen :
        Call("old_ae_xn", Args(alter, n, 0, sex, zins, 1),
             old_ae_xn(alter, n, sex, zins, tafel))

Call_berechne_reserve ==
    /\ op = "idle"
    /\ \E alter \in CallAlter, n \in CallN, t \in CallN,
       sex \in SexArgs, p \in VertragZinsZw :
        Call("berechne_reserve", Args(alter, n, t, sex, p[1], p[2]),
             berechne_reserve(alter, n, t, sex, p[1], p[2], tafel))

\* Verlaufswerte(config, st): construct the projection object
Verlaufswerte_init ==
    \E alter \in CallAlter, n \in CallN, sex \in SexArgs, p \in VertragZinsZw :
        LET config == Args(alter, n, 0, sex, p[1], p[2])
        IN /\ op = "idle"
           /\ ~vw.alive
           /\ op' = "Verlaufswerte"
           /\ arg' = config
           /\ vw' = Verlaufswerte(config)
           /\ ret' = IF Verlaufswerte(config).alive THEN NoRet
                     ELSE Err("ValueError")
           /\ UNCHANGED <<tafel, komm>>

\* a method of the projection object
Method(name, r) ==
    /\ op = "idle"
    /\ vw.alive
    /\ op' = name
    /\ arg' = vw.config
    /\ ret' = r
    /\ UNCHANGED <<tafel, vw, komm>>

\* the projection object goes out of scope
Release ==
    /\ op = "idle"
    /\ vw.alive
    /\ vw' = NoVw
    /\ UNCHANGED <<tafel, komm, op, arg, ret>>

Call_berechne_rentenbarwerte ==
    /\ op = "idle"
    /\ \E strict \in BOOLEAN :
        Method("berechne_rentenbarwerte",
               berechne_rentenbarwerte(vw, tafel, strict))

Call_berechne_todesfallbarwerte ==
    /\ op = "idle"
    /\ \E strict \in BOOLEAN :
        Method("berechne_todesfallbarwerte",
               berechne_todesfallbarwerte(vw, tafel, strict))

Call_berechne_erlebensfallbarwerte ==
    /\ op = "idle"
    /\ \E strict \in BOOLEAN :
        Method("berechne_erlebensfallbarwerte",
               berechne_erlebensfallbarwerte(vw, tafel, strict))

\* Sterbetafel queries
Next ==
    \/ Call_qx
    \/ Call_qx_vec
    \/ Call_px_vec
    \/ Return

Spec == Init /\ [][Next]_vars

\* basisfunktionen.py
NextBasis ==
    \/ Call_npx_skalar
    \/ Call_tpx_matrix
    \/ Return

SpecBasis == Init /\ [][NextBasis]_vars

\* leistungsbarwerte.py
NextLeistung ==
    \/ Call_nAe_x_skalar
    \/ Call_nE_x_skalar
    \/ Call_Ae_xn_skalar
    \/ Call_nAe_x_vec
    \/ Call_nE_x_vec
    \/ Call_nE_x
    \/ Call_nAe_x
    \/ Call_Ae_xn
    \/ Return

SpecLeistung == Init /\ [][NextLeistung]_vars

\* rentenbarwerte.py and the scalar annuities of old/
NextRente ==
    \/ Call_ae_x
    \/ Call_ae_x_k
    \/ Call_ae_xn
    \/ Call_ae_xn_k
    \/ Call_old_ae_x
    \/ Call_old_ae_x_k
    \/ Call_old_ae_xn
    \/ Return

SpecRente == Init /\ [][NextRente]_vars

\* the batch operations: the series functions and the projection object of
\* verlaufswerte.py (the caller holds one projection object at a time and
\* calls the series functions while it holds none)
NextVerlauf ==
    \/ (~vw.alive /\ Call_ae_xn_k)
    \/ (~vw.alive /\ Call_nAe_x)
    \/ (~vw.alive /\ Call_nE_x)
    \/ Verlaufswerte_init
    \/ Call_berechne_rentenbarwerte
    \/ Call_berechne_todesfallbarwerte
    \/ Call_berechne_erlebensfallbarwerte
    \/ Release
    \/ Return

SpecVerlauf == Init /\ [][NextVerlauf]_vars

\* berechne_reserve of verlaufswerte.py
NextReserve ==
    \/ Call_berechne_reserve
    \/ Return

SpecReserve == Init /\ [][NextReserve]_vars

(***************************************************************************)
(* Properties.                                                             *)
(***************************************************************************)
\* the probability the table stores for an age and a sex category
Stored(st, alter, sex) ==
    IF sex = "M" THEN st.data[alter].qx ELSE st.data[alter].qy

InTafel(st, alter) == st.min_alter <= alter /\ alter <= st.max_alter

\* C8: deathProbability(age, sex) raises the out-of-range error exactly when
\* age < min_alter or age > max_alter, and otherwise returns the stored
\* one-year death probability of that age and sex.
C8_qx_Bereich ==
    op = "qx" =>
        /\ IsErr(ret) <=> ~InTafel(tafel, arg.alter)
        /\ IsErr(ret) => ret.exc = "ValueError"
        /\ ~IsErr(ret) => ret = Val(Stored(tafel, arg.alter, arg.sex))

\* C8 witness: the query at the table's maximum age returned a stored value
C8_Witness ==
    /\ op = "qx"
    /\ arg.alter = tafel.max_alter
    /\ ret = Val(R(1, 3))

\* C9 as stated: for all integers age and n, deathProbabilityRange is empty
\* if n <= 0 or age+n exceeds the table's upper bound and otherwise has
\* exactly n entries, the i-th being deathProbability(age+i, sex);
\* survivalProbabilityRange is elementwise 1 minus it.
C9_qx_vec_AlleAlter ==
    op \in {"qx_vec", "px_vec"} =>
        IF arg.n <= 0 \/ arg.alter + arg.n > tafel.max_alter
        THEN ret = Vec(<<>>)
        ELSE /\ ret.kind = "vec"
             /\ Len(ret.vec) = arg.n
             /\ \A i \in 0..(arg.n - 1) :
                    /\ ~IsErr(qx(tafel, arg.alter + i, arg.sex))
                    /\ ret.vec[i + 1] =
                          IF op = "qx_vec"
                          THEN qx(tafel, arg.alter + i, arg.sex).val
                          ELSE RSub(One, qx(tafel, arg.alter + i, arg.sex).val)

\* the contract (alter, n) lies inside the table and below the ceiling
ImVertrag(st, alter, n) ==
    /\ st.min_alter <= alter
    /\ alter + n <= st.max_alter
    /\ alter + n <= MAX_ALTER

\* C3 as stated: nYearSurvivalProbability telescopes,
\* npx(age, n1+n2) = npx(age, n1) * npx(age+n1, n2) for all n1, n2 >= 0 with
\* n1+n2 <= omega - age, up to and including the ceiling.
C3_npx_Teleskop ==
    (op = "npx_skalar" /\ arg.n >= 0 /\ ImVertrag(tafel, arg.alter, arg.n)) =>
        \A n1 \in 0..arg.n :
            LET links == npx_skalar(arg.alter, n1, arg.sex, tafel)
                rechts == npx_skalar(arg.alter + n1, arg.n - n1, arg.sex, tafel)
            IN /\ ret.kind = "val" /\ links.kind = "val" /\ rechts.kind = "val"
               /\ ret.val = RMul(links.val, rechts.val)

\* C5 as stated: for age + maxT <= omega every entry t = 0..maxT of
\* survivalCurve(age, maxT) exists and equals the scalar
\* nYearSurvivalProbability(age, t); entry 0 is 1.
C5_tpx_matrix_Skalar ==
    (op = "tpx_matrix" /\ arg.n >= 0 /\ ImVertrag(tafel, arg.alter, arg.n)) =>
        /\ ret.kind = "vec"
        /\ Len(ret.vec) = arg.n + 1
        /\ ret.vec[1] = One
        /\ \A t \in 0..arg.n :
              ret.vec[t + 1] = npx_skalar(arg.alter, t, arg.sex, tafel).val

\* C4 as stated: for n > 0 and age + n <= omega the scalar endowment value
\* termDeathBenefit + pureEndowment equals 1 - (1 - v) * temporaryAnnuity,
\* with the scalar annuity-due of the same age and term.
C4_Ae_xn_Identitaet ==
    (op = "Ae_xn_skalar" /\ arg.n > 0 /\ ImVertrag(tafel, arg.alter, arg.n)) =>
        LET v == diskont(arg.zins)
            tod == nAe_x_skalar(arg.alter, arg.n, arg.sex, arg.zins, tafel)
            erl == nE_x_skalar(arg.alter, arg.n, arg.sex, arg.zins, tafel)
            rente == old_ae_xn(arg.alter, arg.n, arg.sex, arg.zins, tafel)
        IN /\ ret.kind = "val" /\ rente.kind = "val"
           /\ ret.val = RAdd(tod.val, erl.val)
           /\ ret.val = RSub(One, RMul(RSub(One, v), rente.val))

\* C1 as stated: for n > 0 and age + n <= omega, entry m (m = 0..n) of the
\* death-benefit series nAe_x(age, n) equals the scalar
\* nAe_x_skalar(age + m, n - m).
C1_nAe_x_Skalar ==
    (op = "nAe_x" /\ arg.n > 0 /\ ImVertrag(tafel, arg.alter, arg.n)) =>
        /\ ret.kind = "vec"
        /\ Len(ret.vec) = arg.n + 1
        /\ \A m \in 0..arg.n :
              ret.vec[m + 1] =
                 nAe_x_skalar(arg.alter + m, arg.n - m, arg.sex, arg.zins, tafel).val

\* C2: for a contract inside the table (n > 0, age + n <= omega) and payment
\* frequency 1, entry m (m = 0..n-1) of the annuity series ae_xn_k(age, n)
\* equals the scalar temporary annuity-due of age + m over n - m years.
C2_ae_xn_k_Skalar ==
    (op = "ae_xn_k" /\ arg.zw = 1 /\ arg.n > 0
        /\ ImVertrag(tafel, arg.alter, arg.n)) =>
        /\ ret.kind = "vec"
        /\ Len(ret.vec) = arg.n
        /\ \A m \in 0..(arg.n - 1) :
              LET skalar == old_ae_xn(arg.alter + m, arg.n - m, arg.sex,
                                      arg.zins, tafel)
              IN skalar.kind = "val" /\ ret.vec[m + 1] = skalar.val

\* C2 witness: a series of at least two entries that ends at the ceiling and
\* whose entry at offset 1 is neither the first nor the full payment stream
C2_Witness ==
    /\ op = "ae_xn_k"
    /\ arg.zw = 1
    /\ arg.n >= 2
    /\ arg.alter + arg.n = MAX_ALTER
    /\ ImVertrag(tafel, arg.alter, arg.n)
    /\ ret.kind = "vec"
    /\ Len(ret.vec) = arg.n
    /\ RLt(One, ret.vec[1])
    /\ RLt(ret.vec[1], R(arg.n, 1))
    /\ ret.vec[arg.n] = One

\* C10 as stated: for every age and payment frequency k >= 1,
\* wholeLifeAnnuityWithFrequency(age, k) equals wholeLifeAnnuity(age) minus
\* fractionalPaymentAdjustment(k, i); for k = 1 it equals wholeLifeAnnuity(age).
C10_ae_x_k_Abzug ==
    (op \in {"ae_x_k", "old_ae_x_k"} /\ arg.zw >= 1
        /\ tafel.min_alter <= arg.alter /\ arg.alter <= MAX_ALTER
        /\ tafel.max_alter = MAX_ALTER) =>
        LET rente == old_ae_x(arg.alter, arg.sex, arg.zins, tafel)
        IN /\ ret.kind = "val"
           /\ rente.kind = "val"
           /\ ret.val = RSub(rente.val, abzugsglied(arg.zw, arg.zins))
           /\ arg.zw = 1 => ret.val = rente.val

\* C6 as stated: for 1 <= t <= n and age + n <= omega, reserve(age, n, t)
\* has a value for every offset m = 0..n of the benefit series, and
\* reserve[m] = (deathBenefit[m] + pureEndowment[m]) - P * annuity[m] with
\* annuity[m] = 0 for m >= t and P = (deathBenefit[0] + pureEndowment[0]) /
\* annuity[0].
C6_Reserve_Formel ==
    (op = "berechne_reserve" /\ 1 <= arg.t /\ arg.t <= arg.n
        /\ ImVertrag(tafel, arg.alter, arg.n)) =>
        LET tod == nAe_x_vec(arg.alter, arg.n, arg.sex, arg.zins, tafel)
            erl == nE_x_vec(arg.alter, arg.n, arg.sex, arg.zins, tafel)
            rente == old_ae_xn_verlauf_vec(arg.alter, arg.t, arg.sex,
                                           arg.zins, arg.zw, tafel)
            annuity(m) == IF m >= arg.t THEN Zero ELSE rente.vec[m + 1]
            P == RDiv(RAdd(tod.vec[1], erl.vec[1]), annuity(0))
        IN /\ ret.kind = "dict"
           /\ Len(ret.vec) = arg.n + 1
           /\ ret.val = P
           /\ \A m \in 0..arg.n :
                 ret.vec[m + 1] =
                    RSub(RAdd(tod.vec[m + 1], erl.vec[m + 1]),
                         RMul(P, annuity(m)))

Schlecht(a) == a.n <= 0 \/ a.alter + a.n > MAX_ALTER

JungProbs == {Zero, One}

TafelnAbNull ==
    { [min_alter |-> 0, max_alter |-> MAX_ALTER,
       data |-> [a \in 0..MAX_ALTER |->
                    IF a < LoAlter
                    THEN [qx |-> jc[1], qy |-> RSub(One, jc[1])]
                    ELSE [qx |-> jc[2][a], qy |-> RSub(One, jc[2][a])]]] :
        jc \in JungProbs \X [LoAlter..MAX_ALTER -> Probs] }

InitAbNull ==
    /\ tafel \in TafelnAbNull
    /\ vw = NoVw
    /\ komm = NoKomm
    /\ op = "idle"
    /\ arg = NoArg
    /\ ret = NoRet

\* entry ages of the whole-life calls: around 0 and around the ceiling
LebenAlter == {0 - 1, 0, 1} \cup (LoAlter..(MAX_ALTER + 1))

\* interest rates of a whole-life call: v^t with v < 1 over more than a
\* hundred years exceeds the 32-bit integers of TLC
LebenZinsen(alter) == IF alter < LoAlter THEN {Zero} ELSE Zinsen

\* ae_x_k_val (rentenbarwerte.py, scalar backup function)
ae_x_k_val(alter, sex, zins, zw, st) ==
    IF alter <= 0 \/ alter >= MAX_ALTER THEN Val(Zero)
    ELSE LET n == MAX_ALTER - alter
             v == diskont(zins)
             qx_all == qx_vec(st, alter, n, sex)
             px(t) == RSub(One, qx_all.vec[t])
             barwert == SumSeq([i \in 1..n |->
                            RMul(ProdSeq([t \in 1..(i - 1) |-> px(t)]),
                                 RPow(v, i - 1))])
         IN IF IsErr(qx_all) THEN qx_all
            ELSE IF Len(qx_all.vec) < n - 1 THEN Err("IndexError")
            ELSE Val(RSub(barwert, abzugsglied(zw, zins)))

Leben_old_ae_x ==
    /\ op = "idle"
    /\ \E alter \in LebenAlter, sex \in SexArgs :
        \E zins \in LebenZinsen(alter) :
            Call("old_ae_x", Args(alter, 0, 0, sex, zins, 1),
                 old_ae_x(alter, sex, zins, tafel))

Leben_ae_x ==
    /\ op = "idle"
    /\ \E alter \in LebenAlter, sex \in SexArgs :
        \E zins \in LebenZinsen(alter) :
            Call("ae_x", Args(alter, 0, 0, sex, zins, 1),
                 ae_x(alter, sex, zins, tafel))

Leben_ae_x_k_val ==
    /\ op = "idle"
    /\ \E alter \in LebenAlter, sex \in SexArgs, zw \in {1, 2} :
        \E zins \in LebenZinsen(alter) :
            Call("ae_x_k_val", Args(alter, 0, 0, sex, zins, zw),
                 ae_x_k_val(alter, sex, zins, zw, tafel))

NextLeben ==
    \/ Leben_old_ae_x
    \/ Leben_ae_x
    \/ Leben_ae_x_k_val
    \/ Return

SpecLeben == InitAbNull /\ [][NextLeben]_vars

\* sum of tPx * v^t over t = 0..omega-age-1, tPx from the point queries
LebenSumme(st, alter, sex, zins) ==
    SumSeq([i \in 1..(MAX_ALTER - alter) |->
               RMul(LoopTpx(st, alter, i - 1, sex),
                    RPow(diskont(zins), i - 1))])

\* C11 as stated: for every entry age with 0 <= age < omega the whole-life
\* annuity is the sum of tPx * v^t over t = 0..omega-age-1, and for every
\* age >= omega it is 0.
C11_ae_x_Summe ==
    (op \in {"old_ae_x", "ae_x"} \/ (op = "ae_x_k_val" /\ arg.zw = 1)) =>
        /\ arg.alter >= MAX_ALTER => ret = Val(Zero)
        /\ (0 <= arg.alter /\ arg.alter < MAX_ALTER) =>
              ret = Val(LebenSumme(tafel, arg.alter, arg.sex, arg.zins))

\* sum of tPx * v^t over t = 0..n-1, tPx from the point queries
RenteSumme(st, alter, n, sex, zins) ==
    SumSeq([i \in 1..n |->
               RMul(LoopTpx(st, alter, i - 1, sex),
                    RPow(diskont(zins), i - 1))])

old_ae_xn_k(alter, n, sex, zins, zw, st) ==
    IF zw <= 0 \/ n <= 0 \/ alter + n > MAX_ALTER THEN Val(Zero)
    ELSE LET nn == Min(MAX_ALTER - alter, n)
             v == diskont(zins)
             axn_wert == old_ae_xn(alter, nn, sex, zins, st)
             abzug == abzugsglied(zw, zins)
             n_px == npx_skalar(alter, nn, sex, st)
         IN IF IsErr(axn_wert) THEN axn_wert
            ELSE IF IsErr(n_px) THEN n_px
            ELSE Val(RSub(axn_wert.val,
                          RMul(abzug,
                               RSub(One, RMul(n_px.val, RPow(v, nn))))))

\* m_ae_xn_k of old/rentenbarwerte_vectorized.py (scalar)
old_m_ae_xn_k(alter, n, m, sex, zins, k, st) ==
    IF k <= 0 \/ n <= 0 \/ alter + n > MAX_ALTER THEN Val(Zero)
    ELSE LET v == diskont(zins)
             m_px == npx_skalar(alter, m, sex, st)
             axn_k_wert == old_ae_xn_k(alter + m, n - m, sex, zins, k, st)
         IN IF IsErr(m_px) THEN m_px
            ELSE IF IsErr(axn_k_wert) THEN axn_k_wert
            ELSE Val(RMul(RMul(m_px.val, RPow(v, m)), axn_k_wert.val))

\* m_ae_xn_k of rentenbarwerte.py: ae_xn_k(alter, n) minus ae_xn_k(alter, t)
\* padded with n - t zeros; arrays of different lengths broadcast only if
\* one of them has one entry
m_ae_xn_k(alter, n, t, sex, zins, zw, st) ==
    IF n <= 0 \/ alter + n > MAX_ALTER \/ t > n THEN Vec(<<>>)
    ELSE LET lang == ae_xn_k(alter, n, sex, zins, zw, st)
             kurz == ae_xn_k(alter, t, sex, zins, zw, st)
             pad == kurz.vec \o [i \in 1..(n - t) |-> Zero]
         IN IF IsErr(lang) THEN lang
            ELSE IF IsErr(kurz) THEN kurz
            ELSE IF Len(pad) = Len(lang.vec) THEN Vec(VecSub(lang.vec, pad))
            ELSE IF Len(lang.vec) = 1
                 THEN Vec([i \in 1..Len(pad) |-> RSub(lang.vec[1], pad[i])])
            ELSE Err("ValueError")

\* payment frequencies 1, 2, 4, 12 of the deferred annuities, and entry ages
\* from the first age of the tables to the ceiling
AufschubZinsZw == VertragZinsZw \cup {<<Zero, 4>>, <<Zero, 12>>}

AufschubAlter == LoAlter..MAX_ALTER

Call_m_ae_xn_k ==
    /\ op = "idle"
    /\ \E alter \in AufschubAlter, n \in CallN, t \in CallN,
       sex \in SexArgs, p \in AufschubZinsZw :
        Call("m_ae_xn_k", Args(alter, n, t, sex, p[1], p[2]),
             m_ae_xn_k(alter, n, t, sex, p[1], p[2], tafel))

Call_old_m_ae_xn_k ==
    /\ op = "idle"
    /\ \E alter \in AufschubAlter, n \in 0..(AgeSpan + 1), m \in 0..(AgeSpan + 1),
       sex \in SexArgs, p \in AufschubZinsZw :
        Call("old_m_ae_xn_k", Args(alter, n, m, sex, p[1], p[2]),
             old_m_ae_xn_k(alter, n, m, sex, p[1], p[2], tafel))

NextAufschub ==
    \/ Call_m_ae_xn_k
    \/ Call_old_m_ae_xn_k
    \/ Return

SpecAufschub == Init /\ [][NextAufschub]_vars

\* C13 as stated: for 0 <= d <= n, age + n <= omega and k in {1, 2, 4, 12},
\* entry 0 of the deferred annuity series m_ae_xn_k(age, n, d) equals
\* dPx(age) * v^d * temporaryAnnuityWithFrequency(age + d, n - d, k), taken
\* as 0 when d = n.
C13_m_ae_xn_k_Aufschub ==
    (op = "m_ae_xn_k" /\ 0 <= arg.t /\ arg.t <= arg.n /\ arg.n > 0
        /\ ImVertrag(tafel, arg.alter, arg.n)) =>
        LET d == arg.t
            dPx == npx_skalar(arg.alter, d, arg.sex, tafel)
            rente == old_ae_xn_k(arg.alter + d, arg.n - d, arg.sex,
                                 arg.zins, arg.zw, tafel)
        IN /\ ret.kind = "vec"
           /\ Len(ret.vec) = arg.n
           /\ dPx.kind = "val" /\ rente.kind = "val"
           /\ ret.vec[1] =
                 IF d = arg.n THEN Zero
                 ELSE RMul(RMul(dPx.val, RPow(diskont(arg.zins), d)),
                           rente.val)

\* C14 as stated: for n > 0 and age + n <= omega, up to and including the
\* ceiling, pureEndowment(age, n) is the product of the one-year survival
\* probabilities of the ages age..age+n-1 times v^n; for n <= 0 it is 1.0.
C14_nE_x_Produkt ==
    op = "nE_x_skalar" =>
        /\ arg.n <= 0 => ret = Val(One)
        /\ (arg.n > 0 /\ ImVertrag(tafel, arg.alter, arg.n)) =>
              ret = Val(RMul(LoopTpx(tafel, arg.alter, arg.n, arg.sex),
                             RPow(diskont(arg.zins), arg.n)))

\* C15: for every table with probabilities in [0,1] the entries of
\* survivalMatrix(age, maxT) start with entry 0 = 1, lie in [0,1] and are
\* non-increasing in t; inside the table the curve has maxT + 1 entries.
C15_tpx_matrix_Monoton ==
    op = "tpx_matrix" =>
        /\ ret.kind = "vec" =>
              /\ Len(ret.vec) >= 1
              /\ ret.vec[1] = One
              /\ \A i \in 1..Len(ret.vec) :
                    RLe(Zero, ret.vec[i]) /\ RLe(ret.vec[i], One)
              /\ \A i \in 1..(Len(ret.vec) - 1) :
                    RLe(ret.vec[i + 1], ret.vec[i])
        /\ (arg.n >= 0 /\ ImVertrag(tafel, arg.alter, arg.n)) =>
              (ret.kind = "vec" /\ Len(ret.vec) = arg.n + 1)

\* C15 witness: a curve that falls strictly twice and stays positive
C15_Witness ==
    /\ op = "tpx_matrix"
    /\ ret.kind = "vec"
    /\ Len(ret.vec) >= 3
    /\ RLt(ret.vec[2], ret.vec[1])
    /\ RLt(ret.vec[3], ret.vec[2])
    /\ RLt(Zero, ret.vec[3])

(***************************************************************************)
(* Interest-only functions: abzugsglied and finanzmathematik.ag_k.         *)
(***************************************************************************)
\* interest rates of the interest-only calls, one of them negative
FinanzZinsen == {R(0 - 2, 1), Zero, One}

\* payment frequencies of the interest-only calls; the exact value of
\* abzugsglied(12, i) for i > 0 exceeds the 32-bit integers of TLC
FinanzZw == ((0 - 1)..5) \cup {12}

FinanzZinsZw == { p \in FinanzZinsen \X FinanzZw : p[2] = 12 => p[1] # One }

\* a term (w/zw) / (1 + (w/zw) * zins) of abzugsglied divides by zero
AbzugDivNull(zw, zins) ==
    /\ zw \in {2, 4, 12}
    /\ \E w \in 0..(zw - 1) : RAdd(One, RMul(R(w, zw), zins)) = Zero

\* what a call of abzugsglied returns: the value or ZeroDivisionError
abzugsglied_Aufruf(zw, zins) ==
    IF AbzugDivNull(zw, zins) THEN Err("ZeroDivisionError")
    ELSE Val(abzugsglied(zw, zins))

\* ag_k without the branch for zins == 0
ag_k_ohne_nullzins(g, zins, k) ==
    IF k <= 0 \/ g <= 0 THEN Val(Zero)
    ELSE LET v == diskont(zins)
             abzug == abzugsglied_Aufruf(k, zins)
         IN IF IsErr(abzug) THEN abzug
            ELSE IF v = One THEN Err("ZeroDivisionError")
            ELSE Val(RSub(RDiv(RSub(One, RPow(v, g)), RSub(One, v)),
                          RMul(abzug.val, RSub(One, RPow(v, g)))))

\* ag_k of finanzmathematik.py
ag_k(g, zins, k) ==
    IF k <= 0 \/ g <= 0 THEN Val(Zero)
    ELSE IF zins = Zero THEN Val(R(g, 1))
    ELSE LET v == diskont(zins)
             abzug == abzugsglied_Aufruf(k, zins)
         IN IF IsErr(abzug) THEN abzug
            ELSE IF v = One THEN Err("ZeroDivisionError")
            ELSE Val(RSub(RDiv(RSub(One, RPow(v, g)), RSub(One, v)),
                          RMul(abzug.val, RSub(One, RPow(v, g)))))

Call_abzugsglied ==
    /\ op = "idle"
    /\ \E p \in FinanzZinsZw :
        Call("abzugsglied", Args(0, 0, 0, "M", p[1], p[2]),
             abzugsglied_Aufruf(p[2], p[1]))

\* the number of payments g is recorded in the field n
Call_ag_k ==
    /\ op = "idle"
    /\ \E g \in CallN, p \in FinanzZinsZw :
        Call("ag_k", Args(0, g, 0, "M", p[1], p[2]), ag_k(g, p[1], p[2]))

NextFinanz ==
    \/ Call_abzugsglied
    \/ Call_ag_k
    \/ Return

SpecFinanz == Init /\ [][NextFinanz]_vars

\* C16: fractionalPaymentAdjustment(k, i) is exactly 0 for k = 1 and for
\* every k outside {1, 2, 4, 12}, k <= 0 included, at every interest rate;
\* only k in {2, 4, 12} can give a value other than 0.
C16_abzugsglied_Null ==
    op = "abzugsglied" =>
        /\ arg.zw \notin {2, 4, 12} => ret = Val(Zero)
        /\ ret # Val(Zero) => arg.zw \in {2, 4, 12}

\* C16 witness: an unsupported frequency at a positive rate gave 0, and a
\* supported one is not 0 there
C16_Witness ==
    /\ op = "abzugsglied"
    /\ arg.zw = 3
    /\ arg.zins = One
    /\ ret = Val(Zero)
    /\ abzugsglied(2, arg.zins) # Zero

\* C17: finiteAnnuityCertainValue(g, i, k) is 0 whenever g <= 0 or k <= 0,
\* and exactly g whenever g > 0, k > 0 and i = 0.
C17_ag_k_Randfaelle ==
    op = "ag_k" =>
        /\ (arg.n <= 0 \/ arg.zw <= 0) => ret = Val(Zero)
        /\ (arg.n > 0 /\ arg.zw > 0 /\ arg.zins = Zero) =>
              ret = Val(R(arg.n, 1))

\* C17 witness: three payments, half-yearly, without interest, valued 3
C17_Witness ==
    /\ op = "ag_k"
    /\ arg.n = 3
    /\ arg.zw = 2
    /\ arg.zins = Zero
    /\ ret = Val(R(3, 1))

(***************************************************************************)
(* The sex argument of Sterbetafel.qx.                                     *)
(***************************************************************************)
\* sex arguments: the two codes, their lower case, other strings, empty
SexFrei == {"M", "F", "m", "f", "W", "w", "x", ""}

Call_qx_sex ==
    /\ op = "idle"
    /\ \E alter \in CallAlter, sex \in SexFrei :
        Call("qx_sex", Args(alter, 0, 0, sex, Zero, 1), qx(tafel, alter, sex))

NextGeschlecht ==
    \/ Call_qx_sex
    \/ Return

SpecGeschlecht == Init /\ [][NextGeschlecht]_vars

\* C18: for an age of the table, mortalityRate(age, s) with s other than
\* 'M' and 'F' after upper-casing is the female value of that age, and the
\* lower-case 'm' and 'f' give what 'M' and 'F' give.
C18_qx_Geschlecht ==
    (op = "qx_sex" /\ InTafel(tafel, arg.alter)) =>
        /\ arg.sex \notin {"M", "F", "m", "f"} =>
              ret = Val(tafel.data[arg.alter].qy)
        /\ arg.sex = "m" => ret = qx(tafel, arg.alter, "M")
        /\ arg.sex = "f" => ret = qx(tafel, arg.alter, "F")
        /\ arg.sex \in {"M", "m"} => ret = Val(tafel.data[arg.alter].qx)
        /\ arg.sex \in {"F", "f"} => ret = Val(tafel.data[arg.alter].qy)

\* C18 witness: an unknown code and the lower-case male code, each answered
\* at an age where the two columns differ
C18_Witness ==
    /\ op = "qx_sex"
    /\ InTafel(tafel, arg.alter)
    /\ tafel.data[arg.alter].qx = R(1, 3)
    /\ arg.sex = "w"
    /\ ret = Val(R(2, 3))
    /\ qx(tafel, arg.alter, "m") = Val(R(1, 3))

(***************************************************************************)
(* The table under queries, present values and projections.                *)
(***************************************************************************)
\* (point queries at any time, the other calls while no projection object
\* is held)
NextTafel ==
    \/ Call_qx
    \/ (~vw.alive /\ Call_qx_vec)
    \/ (~vw.alive /\ Call_px_vec)
    \/ (~vw.alive /\ Call_nE_x_skalar)
    \/ Verlaufswerte_init
    \/ Call_berechne_erlebensfallbarwerte
    \/ Release
    \/ Return

SpecTafel == Init /\ [][NextTafel]_vars

RUND_LX == 16
RUND_TX == 16
RUND_DX == 16
RUND_CX == 16
RUND_NX == 16
RUND_MX == 16
RUND_RX == 16

\* d without up to k factors p
RECURSIVE OhneFaktor(_, _, _)
OhneFaktor(d, p, k) ==
    IF k = 0 \/ d % p # 0 THEN d ELSE OhneFaktor(d \div p, p, k - 1)

RECURSIVE Pow10(_)
Pow10(k) == IF k = 0 THEN 1 ELSE 10 * Pow10(k - 1)

\* np.round(x, stellen): a value with at most that many decimals is kept,
\* any other is rounded to the nearest such value, a tie to the even one
np_round(x, stellen) ==
    IF OhneFaktor(OhneFaktor(x.den, 2, stellen), 5, stellen) = 1 THEN x
    ELSE LET s == Pow10(stellen)
             y == x.num * s
             fl == y \div x.den
             rest2 == 2 * (y - fl * x.den)
             g == IF rest2 < x.den THEN fl
                  ELSE IF rest2 > x.den THEN fl + 1
                  ELSE IF fl % 2 = 0 THEN fl ELSE fl + 1
         IN R(g, s)

\* Kommutationswerte.__init__
Kommutationswerte(zins) ==
    [zins |-> zins,
     v |-> IF RLt(Zero, zins) THEN RDiv(One, RAdd(One, zins)) ELSE One,
     alive |-> TRUE, cache |-> <<>>]

\* the cache key formatted from the rate alone
get_cache_key_ohne_geschlecht(self, geschlecht) == <<"", self.zins>>

\* Kommutationswerte._get_cache_key: the string made of the sex argument as
\* passed and the rate, here the pair of the two
get_cache_key(self, geschlecht) == <<geschlecht, self.zins>>

\* the loop of _berechne_lx_vektor for the ages a..b, lx[a - 1] = start
RECURSIVE lx_schleife(_, _, _, _, _)
lx_schleife(st, geschlecht, a, b, start) ==
    IF a > b THEN <<>>
    ELSE IF a = b
    THEN <<np_round(RMul(start, RSub(One, qx(st, a - 1, geschlecht).val)),
                    RUND_LX)>>
    ELSE LET m == (a + b) \div 2
         IN Sei(lx_schleife(st, geschlecht, a, m, start),
                LAMBDA links :
                    links \o lx_schleife(st, geschlecht, m + 1, b,
                                         links[Len(links)]))

\* Kommutationswerte._berechne_lx_vektor
berechne_lx_vektor(st, geschlecht, grenze) ==
    IF \E i \in 1..grenze : IsErr(qx(st, i - 1, geschlecht))
    THEN Err("ValueError")
    ELSE Vec(<<R(1000000, 1)>>
             \o lx_schleife(st, geschlecht, 1, grenze, R(1000000, 1)))

\* Kommutationswerte._berechne_tx_vektor (here and below, \o <<>> makes the
\* array a sequence of values)
berechne_tx_vektor(st, geschlecht, grenze) ==
    Sei(berechne_lx_vektor(st, geschlecht, grenze),
        LAMBDA lx :
            IF IsErr(lx) THEN lx
            ELSE Vec([i \in 1..grenze |->
                         np_round(RSub(lx.vec[i], lx.vec[i + 1]), RUND_TX)]
                     \o <<>>))

\* Kommutationswerte._berechne_Dx_vektor
berechne_Dx_vektor(self, st, geschlecht, grenze) ==
    Sei(berechne_lx_vektor(st, geschlecht, grenze),
        LAMBDA lx :
            IF IsErr(lx) THEN lx
            ELSE Vec([i \in 1..(grenze + 1) |->
                         np_round(RMul(lx.vec[i], RPow(self.v, i - 1)),
                                  RUND_DX)]
                     \o <<>>))

\* Kommutationswerte._berechne_Cx_vektor
berechne_Cx_vektor(self, st, geschlecht, grenze) ==
    Sei(berechne_tx_vektor(st, geschlecht, grenze),
        LAMBDA tx :
            IF IsErr(tx) THEN tx
            ELSE Vec([i \in 1..grenze |->
                         np_round(RMul(tx.vec[i], RPow(self.v, i)),
                                  RUND_CX)]
                     \o <<>>))

\* steps p..q of a backward loop from age hi down: step t sets
\* X[i] = round(X[i + 1] + Y[i]) for i = hi - t + 1, X[i + 1] = start at p
RECURSIVE rueck_schleife(_, _, _, _, _, _)
rueck_schleife(Y, hi, p, q, start, stellen) ==
    IF p > q THEN <<>>
    ELSE IF p = q
    THEN <<np_round(RAdd(start, Y[hi - p + 2]), stellen)>>
    ELSE LET m == (p + q) \div 2
         IN Sei(rueck_schleife(Y, hi, p, m, start, stellen),
                LAMBDA links :
                    links \o rueck_schleife(Y, hi, m + 1, q,
                                            links[Len(links)], stellen))

\* the backward loops of the Nx, Mx and Rx vectors for the ages b down to a,
\* X[b + 1] = start; the values in the order of the ages
summe_rueckwaerts(Y, a, b, start, stellen) ==
    Sei(rueck_schleife(Y, b, 1, b - a + 1, start, stellen),
        LAMBDA s : [i \in 1..Len(s) |-> s[Len(s) - i + 1]] \o <<>>)

\* Kommutationswerte._berechne_Nx_vektor
berechne_Nx_vektor(self, st, geschlecht) ==
    Sei(berechne_Dx_vektor(self, st, geschlecht, MAX_ALTER),
        LAMBDA Dx :
            IF IsErr(Dx) THEN Dx
            ELSE Vec(summe_rueckwaerts(Dx.vec, 0, MAX_ALTER - 1,
                                       Dx.vec[MAX_ALTER + 1], RUND_NX)
                     \o <<Dx.vec[MAX_ALTER + 1]>>))

\* Kommutationswerte._berechne_Mx_vektor
berechne_Mx_vektor(self, st, geschlecht) ==
    Sei(berechne_Cx_vektor(self, st, geschlecht, MAX_ALTER),
        LAMBDA Cx :
            IF IsErr(Cx) THEN Cx
            ELSE Vec(summe_rueckwaerts(Cx.vec, 0, MAX_ALTER - 1,
                                       Cx.vec[MAX_ALTER], RUND_MX)
                     \o <<Cx.vec[MAX_ALTER]>>))

\* Kommutationswerte._berechne_Rx_vektor
berechne_Rx_vektor(self, st, geschlecht) ==
    Sei(berechne_Mx_vektor(self, st, geschlecht),
        LAMBDA Mx :
            IF IsErr(Mx) THEN Mx
            ELSE Vec(summe_rueckwaerts(Mx.vec, 0, MAX_ALTER - 1,
                                       Mx.vec[MAX_ALTER + 1], RUND_RX)
                     \o <<Mx.vec[MAX_ALTER + 1]>>))

KommFelder == {"lx", "Dx", "Nx", "Cx", "Mx", "Rx"}

\* the dictionary _get_kommutationswerte builds on a cache miss
berechne_werte(self, st, geschlecht) ==
    [f \in KommFelder |->
        CASE f = "lx" -> berechne_lx_vektor(st, geschlecht, MAX_ALTER).vec
          [] f = "Dx" -> berechne_Dx_vektor(self, st, geschlecht, MAX_ALTER).vec
          [] f = "Nx" -> berechne_Nx_vektor(self, st, geschlecht).vec
          [] f = "Cx" -> berechne_Cx_vektor(self, st, geschlecht, MAX_ALTER).vec
          [] f = "Mx" -> berechne_Mx_vektor(self, st, geschlecht).vec
          [] f = "Rx" -> berechne_Rx_vektor(self, st, geschlecht).vec]

\* Kommutationswerte._get_kommutationswerte: the cached dictionary, or the
\* computed one, stored; a point query that raises leaves the cache as it is
get_kommutationswerte(self, st, geschlecht) ==
    LET cache_key == get_cache_key(self, geschlecht)
    IN IF cache_key \in DOMAIN self.cache
       THEN [ret |-> NoRet, self |-> self, werte |-> self.cache[cache_key]]
       ELSE IF IsErr(berechne_lx_vektor(st, geschlecht, MAX_ALTER))
       THEN [ret |-> Err("ValueError"), self |-> self, werte |-> <<>>]
       ELSE Sei(berechne_werte(self, st, geschlecht),
                LAMBDA werte :
                    [ret |-> NoRet,
                     self |-> [self EXCEPT
                                  !.cache = (cache_key :> werte) @@ @],
                     werte |-> werte])

\* what a method returns and the object after the call
KRet(r, self) == [ret |-> r, self |-> self]

\* the accessors lx, Dx, Cx, Nx, Mx, Rx: 0.0 outside 0..bis, else the entry
\* of the vector
K_wert(self, st, feld, bis, alter, geschlecht) ==
    IF alter < 0 \/ alter > bis THEN KRet(Val(Zero), self)
    ELSE Sei(get_kommutationswerte(self, st, geschlecht),
             LAMBDA h :
                 IF IsErr(h.ret) THEN KRet(h.ret, h.self)
                 ELSE KRet(Val(h.werte[feld][alter + 1]), h.self))

K_lx(self, st, alter, geschlecht) ==
    K_wert(self, st, "lx", MAX_ALTER, alter, geschlecht)

\* Kommutationswerte.tx
K_tx(self, st, alter, geschlecht) ==
    IF alter < 0 \/ alter >= MAX_ALTER THEN KRet(Val(Zero), self)
    ELSE Sei(get_kommutationswerte(self, st, geschlecht),
             LAMBDA h :
                 IF IsErr(h.ret) THEN KRet(h.ret, h.self)
                 ELSE KRet(Val(RSub(h.werte["lx"][alter + 1],
                                    h.werte["lx"][alter + 2])), h.self))

K_Dx(self, st, alter, geschlecht) ==
    K_wert(self, st, "Dx", MAX_ALTER, alter, geschlecht)

K_Cx(self, st, alter, geschlecht) ==
    K_wert(self, st, "Cx", MAX_ALTER - 1, alter, geschlecht)

K_Nx(self, st, alter, geschlecht) ==
    K_wert(self, st, "Nx", MAX_ALTER, alter, geschlecht)

K_Mx(self, st, alter, geschlecht) ==
    K_wert(self, st, "Mx", MAX_ALTER, alter, geschlecht)

K_Rx(self, st, alter, geschlecht) ==
    K_wert(self, st, "Rx", MAX_ALTER, alter, geschlecht)

\* Kommutationswerte.abzugsglied: the statements of the function abzugsglied
\* with the rate of the object
K_abzugsglied(self, zw) == abzugsglied_Aufruf(zw, self.zins)

\* the statement 'name = self.X(alter, geschlecht)' followed by Dann: a
\* raised error ends the method, else Dann goes on with the value and the
\* object as the accessor left it
Hole(r, Dann(_, _)) ==
    Sei(r, LAMBDA x : IF IsErr(x.ret) THEN x ELSE Dann(x.ret.val, x.self))

\* the return statement 'return wert - self.abzugsglied(zw) * faktor'
MitAbzug(self, zw, wert, faktor) ==
    Sei(K_abzugsglied(self, zw),
        LAMBDA abzug :
            IF IsErr(abzug) THEN KRet(abzug, self)
            ELSE KRet(Val(RSub(wert, RMul(abzug.val, faktor))), self))

\* Kommutationswerte.ax_k
K_ax_k(self, st, alter, geschlecht, zw) ==
    IF zw <= 0 THEN KRet(Val(Zero), self)
    ELSE Hole(K_Nx(self, st, alter, geschlecht), LAMBDA Nx_wert, s1 :
         Hole(K_Dx(s1, st, alter, geschlecht), LAMBDA Dx_wert, s2 :
             IF Dx_wert = Zero THEN KRet(Val(Zero), s2)
             ELSE MitAbzug(s2, zw, RDiv(Nx_wert, Dx_wert), One)))

\* Kommutationswerte.axn_k
K_axn_k(self, st, alter, n, geschlecht, zw) ==
    IF zw <= 0 \/ n <= 0 \/ alter + n > MAX_ALTER THEN KRet(Val(Zero), self)
    ELSE Hole(K_Nx(self, st, alter, geschlecht), LAMBDA Nx_wert, s1 :
         Hole(K_Nx(s1, st, alter + n, geschlecht), LAMBDA Nx_n_wert, s2 :
         Hole(K_Dx(s2, st, alter, geschlecht), LAMBDA Dx_wert, s3 :
         Hole(K_Dx(s3, st, alter + n, geschlecht), LAMBDA Dx_n_wert, s4 :
             IF Dx_wert = Zero THEN KRet(Val(Zero), s4)
             ELSE MitAbzug(s4, zw,
                           RDiv(RSub(Nx_wert, Nx_n_wert), Dx_wert),
                           RSub(One, RDiv(Dx_n_wert, Dx_wert)))))))

\* Kommutationswerte.nax_k
K_nax_k(self, st, alter, n, geschlecht, zw) ==
    IF zw <= 0 \/ n <= 0 \/ alter + n > MAX_ALTER THEN KRet(Val(Zero), self)
    ELSE Hole(K_Dx(self, st, alter, geschlecht), LAMBDA Dx_wert, s1 :
         Hole(K_Dx(s1, st, alter + n, geschlecht), LAMBDA Dx_n_wert, s2 :
             IF Dx_wert = Zero THEN KRet(Val(Zero), s2)
             ELSE Hole(K_ax_k(s2, st, alter + n, geschlecht, zw),
                       LAMBDA rente, s3 :
                           KRet(Val(RMul(RDiv(Dx_n_wert, Dx_wert), rente)),
                                s3))))

\* nAx that divides Mx at the entry age by Dx and leaves out Mx at the end
K_nAx_ohne_Endalter(self, st, alter, n, geschlecht) ==
    IF n <= 0 \/ alter + n > MAX_ALTER THEN KRet(Val(Zero), self)
    ELSE Hole(K_Mx(self, st, alter, geschlecht), LAMBDA Mx_wert, s1 :
         Hole(K_Mx(s1, st, alter + n, geschlecht), LAMBDA Mx_n_wert, s2 :
         Hole(K_Dx(s2, st, alter, geschlecht), LAMBDA Dx_wert, s3 :
             IF Dx_wert = Zero THEN KRet(Val(Zero), s3)
             ELSE KRet(Val(RDiv(Mx_wert, Dx_wert)), s3))))

\* Kommutationswerte.nAx
K_nAx(self, st, alter, n, geschlecht) ==
    IF n <= 0 \/ alter + n > MAX_ALTER THEN KRet(Val(Zero), self)
    ELSE Hole(K_Mx(self, st, alter, geschlecht), LAMBDA Mx_wert, s1 :
         Hole(K_Mx(s1, st, alter + n, geschlecht), LAMBDA Mx_n_wert, s2 :
         Hole(K_Dx(s2, st, alter, geschlecht), LAMBDA Dx_wert, s3 :
             IF Dx_wert = Zero THEN KRet(Val(Zero), s3)
             ELSE KRet(Val(RDiv(RSub(Mx_wert, Mx_n_wert), Dx_wert)), s3))))

\* Kommutationswerte.nEx
K_nEx(self, st, alter, n, geschlecht) ==
    IF n <= 0 \/ alter + n > MAX_ALTER
    THEN KRet(IF n <= 0 THEN Val(One) ELSE Val(Zero), self)
    ELSE Hole(K_Dx(self, st, alter, geschlecht), LAMBDA Dx_wert, s1 :
         Hole(K_Dx(s1, st, alter + n, geschlecht), LAMBDA Dx_n_wert, s2 :
             IF Dx_wert = Zero THEN KRet(Val(Zero), s2)
             ELSE KRet(Val(RDiv(Dx_n_wert, Dx_wert)), s2)))

\* Kommutationswerte.ag_k
K_ag_k(self, g, zw) ==
    IF zw <= 0 \/ g <= 0 THEN Val(Zero)
    ELSE IF self.zins = Zero THEN Val(R(g, 1))
    ELSE LET v_g == RPow(self.v, g)
             abzug == K_abzugsglied(self, zw)
         IN IF self.v = One THEN Err("ZeroDivisionError")
            ELSE IF IsErr(abzug) THEN abzug
            ELSE Val(RSub(RDiv(RSub(One, v_g), RSub(One, self.v)),
                          RMul(abzug.val, RSub(One, v_g))))

KommOps ==
    {"K_lx", "K_tx", "K_Dx", "K_Cx", "K_Nx", "K_Mx", "K_Rx", "K_ax_k",
     "K_axn_k", "K_nax_k", "K_nAx", "K_nEx", "K_abzugsglied", "K_ag_k"}

\* the method of that name called with the recorded arguments (the number
\* of payments g of ag_k is recorded in the field n)
K_Aufruf(self, st, name, a) ==
    CASE name = "K_lx" -> K_lx(self, st, a.alter, a.sex)
      [] name = "K_tx" -> K_tx(self, st, a.alter, a.sex)
      [] name = "K_Dx" -> K_Dx(self, st, a.alter, a.sex)
      [] name = "K_Cx" -> K_Cx(self, st, a.alter, a.sex)
      [] name = "K_Nx" -> K_Nx(self, st, a.alter, a.sex)
      [] name = "K_Mx" -> K_Mx(self, st, a.alter, a.sex)
      [] name = "K_Rx" -> K_Rx(self, st, a.alter, a.sex)
      [] name = "K_ax_k" -> K_ax_k(self, st, a.alter, a.sex, a.zw)
      [] name = "K_axn_k" -> K_axn_k(self, st, a.alter, a.n, a.sex, a.zw)
      [] name = "K_nax_k" -> K_nax_k(self, st, a.alter, a.n, a.sex, a.zw)
      [] name = "K_nAx" -> K_nAx(self, st, a.alter, a.n, a.sex)
      [] name = "K_nEx" -> K_nEx(self, st, a.alter, a.n, a.sex)
      [] name = "K_abzugsglied" -> KRet(K_abzugsglied(self, a.zw), self)
      [] name = "K_ag_k" -> KRet(K_ag_k(self, a.n, a.zw), self)

\* the probability of the old ages in the tables of this section: with it
\* every commutation value has at most RUND_LX decimals
KommProb == R(1, 2)

\* tables with the ages 0..MAX_ALTER: nobody dies below LoAlter, men die
\* with KommProb from one of three ages on, and one table that starts at
\* LoAlter
TafelnKomm ==
    { [min_alter |-> 0, max_alter |-> MAX_ALTER,
       data |-> [a \in 0..MAX_ALTER |->
                    IF a < LoAlter THEN [qx |-> Zero, qy |-> Zero]
                    ELSE IF a < k THEN [qx |-> Zero, qy |-> One]
                    ELSE [qx |-> KommProb, qy |-> RSub(One, KommProb)]]] :
        k \in {LoAlter, MAX_ALTER - 1, MAX_ALTER + 1} }
    \cup { t \in Tafeln : /\ t.min_alter = LoAlter
                          /\ t.max_alter = MAX_ALTER
                          /\ \A a \in LoAlter..MAX_ALTER : t.data[a].qx = Zero }

InitKomm ==
    /\ tafel \in TafelnKomm
    /\ vw = NoVw
    /\ komm = NoKomm
    /\ op = "idle"
    /\ arg = NoArg
    /\ ret = NoRet

\* rates of the objects: with v < 1 the powers v^x up to age 121 exceed the
\* 32-bit integers of TLC
KommZinsen == {Zero, R(0 - 1, 2)}

KommSex == {"M", "m", "F"}

\* ages of the accessor calls: one with an entry in every vector, one
\* without
KommAlter == {LoAlter, MAX_ALTER + 1}

KommPvAlter == {LoAlter}

KommN == {0, 1}

KommZw == {2}

\* komm = Kommutationswerte(sterbetafel, zins)
Kommutationswerte_init ==
    \E zins \in KommZinsen :
        /\ op = "idle"
        /\ ~komm.alive
        /\ op' = "Kommutationswerte"
        /\ arg' = Args(0, 0, 0, "M", zins, 1)
        /\ ret' = NoRet
        /\ komm' = Kommutationswerte(zins)
        /\ UNCHANGED <<tafel, vw>>

\* a method of the Kommutationswerte object
KMethod(name, a) ==
    /\ op = "idle"
    /\ komm.alive
    /\ op' = name
    /\ arg' = a
    /\ \E r \in {K_Aufruf(komm, tafel, name, a)} :
          /\ ret' = r.ret
          /\ komm' = r.self
    /\ UNCHANGED <<tafel, vw>>

\* the Kommutationswerte object goes out of scope
KRelease ==
    /\ op = "idle"
    /\ komm.alive
    /\ komm' = NoKomm
    /\ UNCHANGED <<tafel, vw, op, arg, ret>>

\* the arguments the method of that name is called with
KommArgs(name, zins) ==
    CASE name \in {"K_lx", "K_tx", "K_Dx", "K_Cx", "K_Nx", "K_Mx", "K_Rx"} ->
             { Args(alter, 0, 0, sex, zins, 1) :
                 alter \in KommAlter, sex \in KommSex }
      [] name = "K_ax_k" ->
             { Args(alter, 0, 0, sex, zins, zw) :
                 alter \in KommPvAlter, sex \in KommSex, zw \in KommZw }
      [] name \in {"K_axn_k", "K_nax_k"} ->
             { Args(alter, n, 0, sex, zins, zw) :
                 alter \in KommPvAlter, n \in KommN, sex \in KommSex,
                 zw \in KommZw }
      [] name \in {"K_nAx", "K_nEx"} ->
             { Args(alter, n, 0, sex, zins, 1) :
                 alter \in KommPvAlter, n \in KommN, sex \in KommSex }
      [] name = "K_abzugsglied" ->
             { Args(0, 0, 0, "M", zins, zw) : zw \in KommZw }
      [] name = "K_ag_k" ->
             { Args(0, g, 0, "M", zins, zw) : g \in KommN, zw \in KommZw }

\* a method of the Kommutationswerte object is called
Call_K ==
    /\ op = "idle"
    /\ komm.alive
    /\ \E name \in KommOps :
          \E a \in KommArgs(name, komm.zins) : KMethod(name, a)

NextKomm ==
    \/ Kommutationswerte_init
    \/ Call_K
    \/ KRelease
    \/ Return

SpecKomm == InitKomm /\ [][NextKomm]_vars

\* C20: what a method of a Kommutationswerte object returns after any
\* sequence of earlier queries (any order, any sexes, cache hit or miss) is
\* what a fresh object over the same table and rate returns for the same
\* arguments, and no step of a living object removes or changes an entry
\* that its cache holds.
C20_Komm_Unabhaengig ==
    [][/\ op' \in KommOps =>
             ret' = K_Aufruf(Kommutationswerte(komm.zins), tafel, op',
                             arg').ret
       /\ (komm.alive /\ komm'.alive) =>
             \A key \in DOMAIN komm.cache :
                 /\ key \in DOMAIN komm'.cache
                 /\ komm'.cache[key] = komm.cache[key]
      ]_vars

\* C20 witness: a value of the female vectors returned by an object whose
\* cache holds the vectors of both male spellings, on a table whose columns
\* differ
C20_Witness ==
    /\ op = "K_Mx"
    /\ arg.sex = "F"
    /\ ret.kind = "val"
    /\ ret.val # Zero
    /\ {get_cache_key(komm, "M"), get_cache_key(komm, "m"),
        get_cache_key(komm, "F")} \subseteq DOMAIN komm.cache
    /\ K_Mx(Kommutationswerte(komm.zins), tafel, arg.alter, "M").ret # ret

(***************************************************************************)
(* The two projection series of old/rentenbarwerte_vectorized.py.          *)
(***************************************************************************)
\* ae_xn_verlauf_optimized of old/rentenbarwerte_vectorized.py: one qx_vec
\* for the whole contract, then a cumulative product per offset
old_ae_xn_verlauf_optimized(alter, n, sex, zins, zw, st) ==
    IF n <= 0 \/ alter + n > MAX_ALTER THEN Vec(<<>>)
    ELSE LET nn == Min(MAX_ALTER - alter, n)
             v == diskont(zins)
             abzug == IF zw > 1 THEN abzugsglied(zw, zins) ELSE Zero
             qx_all == qx_vec(st, alter, nn, sex)
             px_all == [i \in 1..Len(qx_all.vec) |-> RSub(One, qx_all.vec[i])]
             px_slice(t) == Slice(Slice(px_all, t, nn), 0, nn - t)
             tpx_values(t) == <<One>> \o CumProd(px_slice(t))
             rente(t) == SumSeq([s \in 1..(nn - t) |->
                             RMul(tpx_values(t)[s], RPow(v, s - 1))])
             korrektur(t) ==
                 RMul(abzug,
                      RSub(One, RMul(tpx_values(t)[nn - t + 1],
                                     RPow(v, nn - t))))
         IN IF IsErr(qx_all) THEN qx_all
            ELSE IF \E t \in 0..(nn - 1) : Len(px_slice(t)) # nn - t
            THEN Err("ValueError")
            ELSE Vec([i \in 1..nn |->
                     IF zw > 1 THEN RSub(rente(i - 1), korrektur(i - 1))
                     ELSE rente(i - 1)])

Call_old_ae_xn_verlauf_vec ==
    /\ op = "idle"
    /\ \E alter \in CallAlter, n \in CallN, sex \in SexArgs,
       p \in AufschubZinsZw :
        Call("old_ae_xn_verlauf_vec", Args(alter, n, 0, sex, p[1], p[2]),
             old_ae_xn_verlauf_vec(alter, n, sex, p[1], p[2], tafel))

Call_old_ae_xn_verlauf_optimized ==
    /\ op = "idle"
    /\ \E alter \in CallAlter, n \in CallN, sex \in SexArgs,
       p \in AufschubZinsZw :
        Call("old_ae_xn_verlauf_optimized", Args(alter, n, 0, sex, p[1], p[2]),
             old_ae_xn_verlauf_optimized(alter, n, sex, p[1], p[2], tafel))

NextVerlaufAlt ==
    \/ Call_old_ae_xn_verlauf_vec
    \/ Call_old_ae_xn_verlauf_optimized
    \/ Return

SpecVerlaufAlt == Init /\ [][NextVerlaufAlt]_vars

\* C21 as stated: for every age and n > 0 with age + n <= omega, the ceiling
\* included, and every k in {1, 2, 4, 12}, ae_xn_verlauf_optimized returns
\* the series ae_xn_verlauf_vec returns: length n, equal entries.
C21_Verlauf_Optimized ==
    (op = "old_ae_xn_verlauf_optimized" /\ arg.n > 0
        /\ ImVertrag(tafel, arg.alter, arg.n)
        /\ arg.zw \in {1, 2, 4, 12}) =>
        /\ ret.kind = "vec"
        /\ Len(ret.vec) = arg.n
        /\ ret = old_ae_xn_verlauf_vec(arg.alter, arg.n, arg.sex, arg.zins,
                                       arg.zw, tafel)

(***************************************************************************)
(* The two pure-endowment series of leistungsbarwerte.py.                  *)
(***************************************************************************)
\* C22 as stated: for every table with probabilities in [0,1], every age and
\* n > 0 with age + n <= omega and every offset t in 0..n, the ratio-based
\* series nE_x equals the per-offset series nE_x_vec, which is the scalar
\* pureEndowment(age + t, n - t); entry n is 1.0 in both.
C22_nE_x_Verhaeltnis ==
    (op = "nE_x" /\ arg.n > 0 /\ ImVertrag(tafel, arg.alter, arg.n)) =>
        LET einzeln == nE_x_vec(arg.alter, arg.n, arg.sex, arg.zins, tafel)
        IN /\ ret.kind = "vec"
           /\ einzeln.kind = "vec"
           /\ Len(ret.vec) = arg.n + 1
           /\ Len(einzeln.vec) = arg.n + 1
           /\ ret.vec[arg.n + 1] = One
           /\ einzeln.vec[arg.n + 1] = One
           /\ \A t \in 0..arg.n :
                 /\ ret.vec[t + 1] = einzeln.vec[t + 1]
                 /\ einzeln.vec[t + 1] =
                       nE_x_skalar(arg.alter + t, arg.n - t, arg.sex,
                                   arg.zins, tafel).val

(***************************************************************************)
(* The endowment identity on the projection series.                        *)
(***************************************************************************)
\* C23 as stated: for every table with probabilities in [0,1], every valid
\* (age, n, i) and every offset j in 0..n-1, Ae_xn(age, n)[j], which is
\* nAe_x(age, n)[j] + nE_x(age, n)[j], equals 1 - (1 - v) * ae_xn(age, n)[j].
C23_Ae_xn_Verlauf ==
    (op = "Ae_xn" /\ arg.n > 0 /\ ImVertrag(tafel, arg.alter, arg.n)) =>
        LET v == diskont(arg.zins)
            tod == nAe_x(arg.alter, arg.n, arg.sex, arg.zins, tafel)
            erl == nE_x(arg.alter, arg.n, arg.sex, arg.zins, tafel)
            rente == ae_xn(arg.alter, arg.n, arg.sex, arg.zins, tafel)
        IN /\ ret.kind = "vec" /\ rente.kind = "vec"
           /\ tod.kind = "vec" /\ erl.kind = "vec"
           /\ Len(rente.vec) = arg.n
           /\ \A j \in 0..(arg.n - 1) :
                 /\ ret.vec[j + 1] = RAdd(tod.vec[j + 1], erl.vec[j + 1])
                 /\ ret.vec[j + 1] =
                       RSub(One, RMul(RSub(One, v), rente.vec[j + 1]))

(***************************************************************************)
(* The equivalence principle at issue.                                     *)
(***************************************************************************)
\* terms and premium terms of the contracts: one year, for which the
\* benefit and the annuity series broadcast, and two years
VertragDauer == {1, 2}

Call_berechne_reserve_vertrag ==
    /\ op = "idle"
    /\ \E alter \in AufschubAlter, n \in VertragDauer, t \in VertragDauer,
       sex \in SexArgs, p \in VertragZinsZw :
        Call("berechne_reserve", Args(alter, n, t, sex, p[1], p[2]),
             berechne_reserve(alter, n, t, sex, p[1], p[2], tafel))

NextPraemie ==
    \/ Call_berechne_reserve_vertrag
    \/ Return

SpecPraemie == Init /\ [][NextPraemie]_vars

NextGrenze ==
    \/ Call_tpx_matrix
    \/ Call_ae_xn
    \/ Call_ae_xn_k
    \/ Call_nAe_x
    \/ Call_nE_x
    \/ Return

SpecGrenze == Init /\ [][NextGrenze]_vars

\* C25 as stated: on a table whose maximum age is below 121, tpx_matrix,
\* ae_xn, ae_xn_k, nAe_x and nE_x called with n > 0 and age + n above the
\* table's maximum age but not above 121 return a sequence, without raising.
C25_Tafel_Unter_Obergrenze ==
    (op \in {"tpx_matrix", "ae_xn", "ae_xn_k", "nAe_x", "nE_x"}
        /\ tafel.max_alter < MAX_ALTER
        /\ arg.n > 0
        /\ tafel.min_alter <= arg.alter
        /\ arg.alter + arg.n > tafel.max_alter
        /\ arg.alter + arg.n <= MAX_ALTER) =>
        ret.kind = "vec"

(***************************************************************************)
(* The sign of the annuity values.                                         *)
(***************************************************************************)
\* n_ae_x_k of old/rentenbarwerte_vectorized.py (scalar)
old_n_ae_x_k(alter, n, sex, zins, k, st) ==
    IF k <= 0 \/ n <= 0 \/ alter + n > MAX_ALTER THEN Val(Zero)
    ELSE LET v == diskont(zins)
             n_px == npx_skalar(alter, n, sex, st)
             ax_k_wert == old_ae_x_k(alter + n, sex, zins, k, st)
         IN IF IsErr(n_px) THEN n_px
            ELSE IF IsErr(ax_k_wert) THEN ax_k_wert
            ELSE Val(RMul(RMul(n_px.val, RPow(v, n)), ax_k_wert.val))

Call_old_n_ae_x_k ==
    /\ op = "idle"
    /\ \E alter \in AufschubAlter, n \in CallN, sex \in SexArgs,
       p \in AufschubZinsZw :
        Call("old_n_ae_x_k", Args(alter, n, 0, sex, p[1], p[2]),
             old_n_ae_x_k(alter, n, sex, p[1], p[2], tafel))

Call_old_ae_xn_k ==
    /\ op = "idle"
    /\ \E alter \in AufschubAlter, n \in CallN, sex \in SexArgs,
       p \in AufschubZinsZw :
        Call("old_ae_xn_k", Args(alter, n, 0, sex, p[1], p[2]),
             old_ae_xn_k(alter, n, sex, p[1], p[2], tafel))

NextBarwert ==
    \/ Call_old_ae_x_k
    \/ Call_ae_xn_k
    \/ Call_old_ae_xn_k
    \/ Call_old_n_ae_x_k
    \/ Call_old_m_ae_xn_k
    \/ Return

SpecBarwert == Init /\ [][NextBarwert]_vars

\* C26 as stated: for every age in [0, omega], every duration or deferment
\* and every k in {1, 2, 4, 12}, the whole-life (ae_x_k), temporary
\* (ae_xn_k) and deferred (n_ae_x_k, m_ae_xn_k) annuity functions return a
\* value >= 0.
C26_Rente_Nichtnegativ ==
    (op \in {"old_ae_x_k", "ae_xn_k", "old_ae_xn_k", "old_n_ae_x_k",
             "old_m_ae_xn_k"}
        /\ 0 <= arg.alter /\ arg.alter <= MAX_ALTER
        /\ InTafel(tafel, arg.alter)
        /\ arg.zw \in {1, 2, 4, 12}) =>
        /\ ret.kind = "val" => RLe(Zero, ret.val)
        /\ ret.kind = "vec" =>
              \A i \in 1..Len(ret.vec) : RLe(Zero, ret.vec[i])

(***************************************************************************)
(* The annuity series of the projection object.                            *)
(***************************************************************************)
\* C27 as stated: Verlaufswerte.berechne_rentenbarwerte returns a
\* one-dimensional series of exactly n numbers whose entry i is the single
\* present value of the temporary annuity for (age + i, n - i) that ae_xn_k
\* gives for that offset.
C27_Rentenbarwerte_Reihe ==
    (op = "berechne_rentenbarwerte" /\ arg.n > 0
        /\ ImVertrag(tafel, arg.alter, arg.n)) =>
        /\ ret.kind = "vec"
        /\ Len(ret.vec) = arg.n
        /\ \A i \in 0..(arg.n - 1) :
              LET wert == ae_xn_k(arg.alter + i, arg.n - i, arg.sex,
                                  arg.zins, arg.zw, tafel)
              IN /\ wert.kind = "vec"
                 /\ ret.vec[i + 1] = wert.vec[1]

(***************************************************************************)
(* The sums of the discounted deaths.                                      *)
(***************************************************************************)
\* a method of the Kommutationswerte object was called with the arguments a
\* and gave r: its result and the object after the call
KSchritt(name, a, r) ==
    /\ op' = name
    /\ arg' = a
    /\ ret' = r.ret
    /\ komm' = r.self
    /\ UNCHANGED <<tafel, vw>>

\* ages of the Mx queries: the first age, the ages of the old and the two
\* ages around the ceiling
SummeAlter == {0} \cup (LoAlter..(MAX_ALTER + 1))

\* ages and terms of the nAx calls
SummeN == 0..(AgeSpan + 1)

Call_K_Mx ==
    /\ op = "idle"
    /\ komm.alive
    /\ \E alter \in SummeAlter, sex \in SexArgs :
          KSchritt("K_Mx", Args(alter, 0, 0, sex, komm.zins, 1),
                   K_Mx(komm, tafel, alter, sex))

Call_K_nAx ==
    /\ op = "idle"
    /\ komm.alive
    /\ \E alter \in LoAlter..MAX_ALTER, n \in SummeN, sex \in SexArgs :
          KSchritt("K_nAx", Args(alter, n, 0, sex, komm.zins, 1),
                   K_nAx(komm, tafel, alter, n, sex))

NextSumme ==
    \/ Kommutationswerte_init
    \/ Call_K_Mx
    \/ Call_K_nAx
    \/ KRelease
    \/ Return

SpecSumme == InitKomm /\ [][NextSumme]_vars

\* the sum of Cx[i] over the ages i = von..bis
CxSumme(self, st, geschlecht, von, bis) ==
    SumSeq(SubSeq(berechne_Cx_vektor(self, st, geschlecht, MAX_ALTER).vec,
                  von + 1, bis + 1))

\* C28 as stated: for every age x in 0..121, Mx[x] is the sum of Cx[i] over
\* the ages i = x..120, and Mx[x] = Cx[x] + Mx[x + 1].
C28_Mx_Summe ==
    (op = "K_Mx" /\ 0 <= arg.alter /\ arg.alter <= MAX_ALTER
        /\ ret.kind = "val") =>
        /\ ret.val = CxSumme(komm, tafel, arg.sex, arg.alter, MAX_ALTER - 1)
        /\ arg.alter < MAX_ALTER =>
              ret.val = RAdd(K_Cx(komm, tafel, arg.alter, arg.sex).ret.val,
                             K_Mx(komm, tafel, arg.alter + 1, arg.sex).ret.val)

(***************************************************************************)
(* The probabilities of death in the n-th year.                            *)
(***************************************************************************)
\* nqx_skalar
nqx_skalar(alter, n, sex, st) ==
    IF n <= 0 \/ alter + n >= MAX_ALTER THEN Val(Zero)
    ELSE IF n = 1 THEN qx(st, alter, sex)
    ELSE LET n_minus_1_px == npx_skalar(alter, n - 1, sex, st)
             qx_wert == qx(st, alter + n - 1, sex)
         IN IF IsErr(n_minus_1_px) THEN n_minus_1_px
            ELSE IF IsErr(qx_wert) THEN qx_wert
            ELSE Val(RMul(n_minus_1_px.val, qx_wert.val))

\* npx: the series jpx for j = 0..n; a px_slice of one element is broadcast
\* into jpx_values[1:]
npx(alter, n, sex, st) ==
    IF n <= 0 \/ alter + n > MAX_ALTER THEN Vec(<<>>)
    ELSE LET nn == Min(MAX_ALTER - alter, n)
             qx_all == qx_vec(st, alter, nn, sex)
             px_all == [i \in 1..Len(qx_all.vec) |-> RSub(One, qx_all.vec[i])]
             px_slice(j) == <<One>> \o Slice(Slice(px_all, 0, j), 0, j)
             passt(j) == Len(px_slice(j)) = j + 1 \/ Len(px_slice(j)) = 1
             entry(j) == IF Len(px_slice(j)) = j + 1
                         THEN CumProd(px_slice(j))[j + 1]
                         ELSE px_slice(j)[1]
         IN IF IsErr(qx_all) THEN qx_all
            ELSE IF \E j \in 0..nn : ~passt(j) THEN Err("ValueError")
            ELSE Vec([i \in 1..(nn + 1) |-> entry(i - 1)])

\* nqx: the series for j = 0..n
nqx(alter, n, sex, st) ==
    IF n <= 0 \/ alter + n > MAX_ALTER THEN Vec(<<>>)
    ELSE LET nn == Min(MAX_ALTER - alter, n)
             qx_all == qx_vec(st, alter - 1, nn + 1, sex)
             npx_all == npx(alter, nn, sex, st)
         IN IF IsErr(qx_all) THEN qx_all
            ELSE IF IsErr(npx_all) THEN npx_all
            ELSE IF Len(qx_all.vec) < nn + 1 \/ Len(npx_all.vec) < nn
            THEN Err("IndexError")
            ELSE Vec([i \in 1..(nn + 1) |->
                     IF i = 1 THEN qx_all.vec[1]
                     ELSE RMul(qx_all.vec[i], npx_all.vec[i - 1])])

Call_nqx_skalar ==
    /\ op = "idle"
    /\ \E alter \in CallAlter, n \in CallN, sex \in SexArgs :
        Call("nqx_skalar", Args(alter, n, 0, sex, Zero, 1),
             nqx_skalar(alter, n, sex, tafel))

Call_npx ==
    /\ op = "idle"
    /\ \E alter \in CallAlter, n \in CallN, sex \in SexArgs :
        Call("npx", Args(alter, n, 0, sex, Zero, 1),
             npx(alter, n, sex, tafel))

Call_nqx ==
    /\ op = "idle"
    /\ \E alter \in CallAlter, n \in CallN, sex \in SexArgs :
        Call("nqx", Args(alter, n, 0, sex, Zero, 1),
             nqx(alter, n, sex, tafel))

NextSterben ==
    \/ Call_nqx_skalar
    \/ Call_npx
    \/ Call_nqx
    \/ Return

SpecSterben == Init /\ [][NextSterben]_vars

\* C29 as stated: for every age >= minAge and n > 0 with age + n <= omega
\* and every j in 0..n, entry j of nqx(age, n) equals the scalar
\* nqx_skalar(age, j), which is the (j-1)-year survival from age times
\* q(age + j - 1) and 0 for j = 0; the call reads only the ages in
\* [age, age + n) and never raises.
C29_nqx_Reihe ==
    (op = "nqx" /\ arg.n > 0 /\ ImVertrag(tafel, arg.alter, arg.n)) =>
        /\ ret.kind = "vec"
        /\ Len(ret.vec) = arg.n + 1
        /\ ret.vec[1] = Zero
        /\ \A j \in 0..arg.n :
              ret.vec[j + 1] = nqx_skalar(arg.alter, j, arg.sex, tafel).val
        /\ \A j \in 1..arg.n :
              ret.vec[j + 1] =
                 RMul(LoopTpx(tafel, arg.alter, j - 1, arg.sex),
                      qx(tafel, arg.alter + j - 1, arg.sex).val)

\* C30: for every age x and n > 0 with x + n <= 121, the difference
\* Mx[x] - Mx[x + n] that nAx uses is the sum of Cx[i] over i = x..x+n-1,
\* whatever Mx holds at the last age, so nAx(x, n) * Dx[x] is that sum.
C30_nAx_Summe ==
    (op = "K_nAx" /\ arg.n > 0 /\ 0 <= arg.alter
        /\ arg.alter + arg.n <= MAX_ALTER /\ ret.kind = "val") =>
        LET Mx_wert == K_Mx(komm, tafel, arg.alter, arg.sex).ret.val
            Mx_n_wert == K_Mx(komm, tafel, arg.alter + arg.n, arg.sex).ret.val
            Dx_wert == K_Dx(komm, tafel, arg.alter, arg.sex).ret.val
            summe == CxSumme(komm, tafel, arg.sex, arg.alter,
                             arg.alter + arg.n - 1)
        IN /\ RSub(Mx_wert, Mx_n_wert) = summe
           /\ RMul(ret.val, Dx_wert) = summe

\* a term insurance that ends at the last age, where Mx is not 0, on a table
\* with deaths in several of its years
C30_Witness ==
    /\ op = "K_nAx"
    /\ arg.n > 1
    /\ arg.alter + arg.n = MAX_ALTER
    /\ ret.kind = "val"
    /\ ret.val # Zero
    /\ K_Mx(komm, tafel, MAX_ALTER, arg.sex).ret.val # Zero
    /\ K_Cx(komm, tafel, arg.alter, arg.sex).ret.val # Zero
    /\ K_Cx(komm, tafel, MAX_ALTER - 1, arg.sex).ret.val # Zero

====
